---- MODULE Spec2Model ----
(***************************************************************************)
(* Chemical Equipment Visualizer: the CSV ingestion core of the backend    *)
(* (backend/equipment/views.py, dynamic_csv_handler.py, models.py) and its *)
(* account endpoints (views.py, auth_views.py).                            *)
(*                                                                         *)
(* Representation.                                                         *)
(*   text    a sequence of one-character strings, <<"4","5","C">>          *)
(*   float   an exact rational [k |-> "float", n, d], d > 0, in lowest     *)
(*           terms; the inputs are chosen so that no result depends on     *)
(*           the rounding of binary floating point                          *)
(*   cell    what pandas.read_csv leaves in a DataFrame cell: NaN, a       *)
(*           numpy float64, a numpy int64, or a str                        *)
(*   message a record [fmt |-> the format string] with the values that     *)
(*           fill its fields                                               *)
(*                                                                         *)
(* Libraries.  pandas is modelled as it runs without copy-on-write:        *)
(* df[col].fillna(value, inplace=True) changes the frame.  A response is   *)
(* the Response object the view returns; its rendering to JSON is not      *)
(* part of the model.  The database engine is that of the settings in      *)
(* use: sqlite3, or djongo under settings_mongodb.  Django's create_user   *)
(* stores normalize_email(email); exact lookups compare text as it is.     *)
(***************************************************************************)
EXTENDS Integers, Sequences, FiniteSets, TLC

VARIABLES
    backend,        \* the database engine of the deployment
    database,       \* the datastore
    last_request,   \* the last request handled, NoRequest before the first
    last_response,  \* its response
    uploaded,       \* the dataset ids returned by the 201 responses, in order
    failed,         \* the number of requests answered otherwise
    threads,        \* the uploads in flight, each with its position and its locals
    arg,            \* the input handed to the function under evaluation
    ret,            \* its result, or Pending before the call
    again,          \* the result of the function applied to its own result
    accounts        \* the users, their auth tokens and their one-time passwords

fnVars == <<arg, ret, again>>
webVars == <<backend, database, last_request, last_response, uploaded, failed, threads, accounts>>
vars == <<backend, database, last_request, last_response, uploaded, failed, threads, arg, ret, again,
          accounts>>

(***************************************************************************)
(* Exact arithmetic                                                        *)
(***************************************************************************)
Abs(x) == IF x < 0 THEN -x ELSE x

RECURSIVE GCD(_, _)
GCD(a, b) == IF b = 0 THEN a ELSE GCD(b, a % b)

\* the rational n/d in lowest terms, d > 0
Float(n, d) ==
    LET g == GCD(Abs(n), Abs(d))
        s == IF d < 0 THEN -1 ELSE 1
    IN  [k |-> "float", n |-> (s * n) \div g, d |-> (s * d) \div g]

NaN == [k |-> "nan"]
None == [k |-> "none"]
Int64(i) == [k |-> "int64", i |-> i]
Str(s) == [k |-> "str", s |-> s]

IsFloat(x) == x.k = "float"
FAdd(a, b) == Float(a.n * b.d + b.n * a.d, a.d * b.d)
FDivInt(a, m) == Float(a.n, a.d * m)
FLt(a, b) == a.n * b.d < b.n * a.d
FGt(a, b) == FLt(b, a)
FLe(a, b) == ~FLt(b, a)

(***************************************************************************)
(* Text: str.strip, str.upper, str(int), float(str)                        *)
(***************************************************************************)
Digits == <<"0", "1", "2", "3", "4", "5", "6", "7", "8", "9">>
LowerCase == <<"a", "b", "c", "d", "e", "f", "g", "h", "i", "j", "k", "l", "m",
               "n", "o", "p", "q", "r", "s", "t", "u", "v", "w", "x", "y", "z">>
UpperCase == <<"A", "B", "C", "D", "E", "F", "G", "H", "I", "J", "K", "L", "M",
               "N", "O", "P", "Q", "R", "S", "T", "U", "V", "W", "X", "Y", "Z">>
Whitespace == {" ", "\t"}

IsDigit(c) == \E i \in 1..10 : Digits[i] = c
DigitVal(c) == (CHOOSE i \in 1..10 : Digits[i] = c) - 1

upper_char(c) ==
    IF \E i \in 1..26 : LowerCase[i] = c
    THEN UpperCase[CHOOSE i \in 1..26 : LowerCase[i] = c]
    ELSE c

lower_char(c) ==
    IF \E i \in 1..26 : UpperCase[i] = c
    THEN LowerCase[CHOOSE i \in 1..26 : UpperCase[i] = c]
    ELSE c

\* str.lower()
lower(s) == [i \in 1..Len(s) |-> lower_char(s[i])]

\* keyword in text
contains(text, keyword) ==
    \E i \in 1..(Len(text) - Len(keyword) + 1) :
        SubSeq(text, i, i + Len(keyword) - 1) = keyword

\* str.upper()
upper(s) == [i \in 1..Len(s) |-> upper_char(s[i])]

\* str.strip(): drop leading and trailing whitespace
strip(s) ==
    LET keep == {i \in 1..Len(s) : s[i] \notin Whitespace}
    IN  IF keep = {} THEN <<>>
        ELSE LET lo == CHOOSE i \in keep : \A j \in keep : i <= j
                 hi == CHOOSE i \in keep : \A j \in keep : j <= i
             IN  SubSeq(s, lo, hi)

RECURSIVE nat_digits(_)
nat_digits(i) ==
    IF i < 10 THEN <<Digits[i + 1]>>
    ELSE nat_digits(i \div 10) \o <<Digits[(i % 10) + 1]>>

\* str() of an integer
int_str(i) == IF i < 0 THEN <<"-">> \o nat_digits(-i) ELSE nat_digits(i)

RECURSIVE digits_nat(_)
digits_nat(s) ==
    IF s = <<>> THEN 0
    ELSE 10 * digits_nat(SubSeq(s, 1, Len(s) - 1)) + DigitVal(s[Len(s)])

RECURSIVE Pow10(_)
Pow10(e) == IF e = 0 THEN 1 ELSE 10 * Pow10(e - 1)

\* float() of a text of the shape sign? digits ('.' digits*)?
float_of_text(t) ==
    LET neg  == t # <<>> /\ t[1] = "-"
        body == IF neg THEN Tail(t) ELSE t
        dots == {i \in 1..Len(body) : body[i] = "."}
        dot  == IF dots = {} THEN Len(body) + 1 ELSE CHOOSE i \in dots : TRUE
        ip   == SubSeq(body, 1, dot - 1)
        fp   == SubSeq(body, dot + 1, Len(body))
        mag  == Float(digits_nat(ip) * Pow10(Len(fp)) + digits_nat(fp), Pow10(Len(fp)))
    IN  IF neg THEN Float(-mag.n, mag.d) ELSE mag

(***************************************************************************)
(* re.search(r'-?\d+\.?\d*', s)                                            *)
(***************************************************************************)
\* the end of the maximal run of digits of s that starts at position i
RECURSIVE digit_run_end(_, _)
digit_run_end(s, i) ==
    IF i <= Len(s) /\ IsDigit(s[i]) THEN digit_run_end(s, i + 1) ELSE i - 1

\* a match can start at i: '-' followed by a digit, or a digit
match_at(s, i) ==
    \/ IsDigit(s[i])
    \/ s[i] = "-" /\ i + 1 <= Len(s) /\ IsDigit(s[i + 1])

\* the matched text (match.group()), or <<>> when there is no match
re_search_number(s) ==
    LET starts == {i \in 1..Len(s) : match_at(s, i)}
    IN  IF starts = {} THEN <<>>
        ELSE LET b  == CHOOSE i \in starts : \A j \in starts : i <= j
                 d0 == IF s[b] = "-" THEN b + 1 ELSE b
                 d1 == digit_run_end(s, d0)
                 e  == IF d1 + 1 <= Len(s) /\ s[d1 + 1] = "."
                       THEN digit_run_end(s, d1 + 2)
                       ELSE d1
             IN  SubSeq(s, b, e)

NonNumericIndicators ==
    { <<"N", "/", "A">>, <<"N", "A">>, <<"N", "O", "N", "E">>, <<"N", "U", "L", "L">>,
      <<>>, <<"A", "M", "B", "I", "E", "N", "T">>,
      <<"R", "O", "O", "M", " ", "T", "E", "M", "P">>,
      <<"A", "T", "M", "O", "S", "P", "H", "E", "R", "I", "C">> }

\* pd.isna on a scalar
pd_isna(value) == value.k \in {"nan", "none"}

\* str(value) for the cells that reach it
str(value) == IF value.k = "int64" THEN int_str(value.i) ELSE value.s

\* views.extract_numeric_value
extract_numeric_value(value) ==
    IF pd_isna(value) THEN None
    ELSE IF value.k = "float" THEN value
    ELSE LET value_str == strip(str(value)) IN
         IF upper(value_str) \in NonNumericIndicators THEN None
         ELSE LET match == re_search_number(value_str) IN
              IF match # <<>> THEN float_of_text(match) ELSE None

\* a copy whose pattern lost the optional sign: re.search(r'\d+\.?\d*', s)
dyn_extract_unsigned(value) ==
    IF pd_isna(value) THEN None
    ELSE IF value.k = "float" THEN value
    ELSE LET value_str == strip(str(value)) IN
         IF upper(value_str) \in NonNumericIndicators THEN None
         ELSE LET match == re_search_number(value_str)
                  unsigned == IF match # <<>> /\ match[1] = "-" THEN Tail(match) ELSE match
              IN  IF match # <<>> THEN float_of_text(unsigned) ELSE None

\* dynamic_csv_handler.extract_numeric_value
dyn_extract_numeric_value(value) ==
    IF pd_isna(value) THEN None
    ELSE IF value.k = "float" THEN value
    ELSE LET value_str == strip(str(value)) IN
         IF upper(value_str) \in NonNumericIndicators THEN None
         ELSE LET match == re_search_number(value_str) IN
              IF match # <<>> THEN float_of_text(match) ELSE None


(***************************************************************************)
(* DataFrame: [columns |-> sequence of names, rows |-> sequence of rows],   *)
(* a row being the sequence of its cells in column order.                  *)
(***************************************************************************)
in_columns(df, col) == \E c \in 1..Len(df.columns) : df.columns[c] = col
columns_index(df, col) == CHOOSE c \in 1..Len(df.columns) : df.columns[c] = col

\* df[col]
series(df, col) == [r \in 1..Len(df.rows) |-> df.rows[r][columns_index(df, col)]]

\* df.empty: no column or no row
df_empty(df) == Len(df.columns) = 0 \/ Len(df.rows) = 0

\* the texts pandas.read_csv reads as a missing value (its default na_values)
NaValues ==
    { <<>>, <<"#", "N", "/", "A">>, <<"#", "N", "/", "A", " ", "N", "/", "A">>, <<"#", "N", "A">>, <<"-", "N", "a", "N">>, <<"-", "n", "a", "n">>, <<"<", "N", "A", ">">>, <<"N", "/", "A">>, <<"N", "A">>,
      <<"N", "U", "L", "L">>, <<"N", "a", "N">>, <<"N", "o", "n", "e">>, <<"n", "/", "a">>, <<"n", "a", "n">>, <<"n", "u", "l", "l">> }

is_number_literal(text) == text # <<>> /\ re_search_number(text) = text
is_int_literal(text) == is_number_literal(text) /\ \A p \in 1..Len(text) : text[p] # "."

\* the cells of one parsed column: int64 when every cell is an integer, float64 when
\* every present cell is a number, else object (str cells); a missing cell is NaN
read_csv_column(texts) ==
    LET rows    == 1..Len(texts)
        present == {r \in rows : texts[r] \notin NaValues}
        dtype   == IF present = rows /\ rows # {} /\ \A r \in rows : is_int_literal(texts[r])
                   THEN "int64"
                   ELSE IF \A r \in present : is_number_literal(texts[r])
                   THEN "float64"
                   ELSE "object"
    IN  [r \in rows |->
            IF r \notin present THEN NaN
            ELSE CASE dtype = "int64" -> Int64(float_of_text(texts[r]).n)
                   [] dtype = "float64" -> float_of_text(texts[r])
                   [] dtype = "object" -> Str(texts[r])]

\* pd.read_csv(io.StringIO(file_data)) of a decoded file [header, lines]
read_csv(file) ==
    LET cols == 1..Len(file.header)
        parsed == [c \in cols |->
                      read_csv_column([r \in 1..Len(file.lines) |-> file.lines[r][c]])]
    IN  [columns |-> file.header,
         rows |-> [r \in 1..Len(file.lines) |-> [c \in cols |-> parsed[c][r]]]]

\* Series.mean(): the mean of the present values, NaN when there is none
RECURSIVE series_sum(_)
series_sum(s) ==
    IF s = <<>> THEN Float(0, 1)
    ELSE IF IsFloat(Head(s)) THEN FAdd(Head(s), series_sum(Tail(s)))
    ELSE series_sum(Tail(s))

series_count(s) == Cardinality({r \in 1..Len(s) : IsFloat(s[r])})

series_mean(s) ==
    IF series_count(s) = 0 THEN NaN ELSE FDivInt(series_sum(s), series_count(s))

\* Series.isnull().sum()
isnull_sum(s) == Cardinality({r \in 1..Len(s) : ~IsFloat(s[r])})

\* a fill that puts 0 for every missing value
fillna_zero(s, value) == [r \in 1..Len(s) |-> IF IsFloat(s[r]) THEN s[r] ELSE Float(0, 1)]

\* Series.fillna(value): a NaN value fills nothing
fillna(s, value) == [r \in 1..Len(s) |-> IF IsFloat(s[r]) THEN s[r] ELSE value]

\* df[col] = s
set_series(df, col, s) ==
    LET c == columns_index(df, col)
    IN  [df EXCEPT !.rows = [r \in 1..Len(df.rows) |-> [df.rows[r] EXCEPT ![c] = s[r]]]]


FSub(a, b) == Float(a.n * b.d - b.n * a.d, a.d * b.d)
FMul(a, b) == Float(a.n * b.n, a.d * b.d)

\* the present values of a series, in row order
present_values(s) == SelectSeq(s, IsFloat)

\* Series.min(), Series.max(): NaN when no value is present
series_min(s) ==
    LET v == present_values(s)
    IN  IF v = <<>> THEN NaN
        ELSE v[CHOOSE i \in 1..Len(v) : \A j \in 1..Len(v) : FLe(v[i], v[j])]

series_max(s) ==
    LET v == present_values(s)
    IN  IF v = <<>> THEN NaN
        ELSE v[CHOOSE i \in 1..Len(v) : \A j \in 1..Len(v) : FLe(v[j], v[i])]

\* the values in ascending order
RECURSIVE sort_values(_)
sort_values(v) ==
    IF v = <<>> THEN <<>>
    ELSE LET i == CHOOSE i \in 1..Len(v) : \A j \in 1..Len(v) : FLe(v[i], v[j])
         IN  <<v[i]>> \o sort_values(SubSeq(v, 1, i - 1) \o SubSeq(v, i + 1, Len(v)))

\* Series.median(): the middle value, or the mean of the two middle values
series_median(s) ==
    LET v == sort_values(present_values(s))
        m == Len(v)
    IN  IF m = 0 THEN NaN
        ELSE IF m % 2 = 1 THEN v[(m + 1) \div 2]
        ELSE FDivInt(FAdd(v[m \div 2], v[m \div 2 + 1]), 2)

RECURSIVE sum_sq_dev(_, _)
sum_sq_dev(v, mean) ==
    IF v = <<>> THEN Float(0, 1)
    ELSE FAdd(FMul(FSub(Head(v), mean), FSub(Head(v), mean)), sum_sq_dev(Tail(v), mean))

\* Series.std(): the sample standard deviation (ddof = 1), NaN below two values.
\* A non-zero result is kept as the square root of the exact variance.
series_std(s) ==
    LET v == present_values(s)
    IN  IF Len(v) < 2 THEN NaN
        ELSE LET var == FDivInt(sum_sq_dev(v, series_mean(s)), Len(v) - 1)
             IN  IF var.n = 0 THEN Float(0, 1) ELSE [k |-> "sqrt", of |-> var]

\* the integer nearest to n/d (d > 0), a tie going to the even one
round_half_even(n, d) ==
    LET q == n \div d
        r == n - q * d
    IN  IF 2 * r < d THEN q
        ELSE IF 2 * r > d THEN q + 1
        ELSE IF q % 2 = 0 THEN q ELSE q + 1

\* round(x, 2); NaN stays NaN, a square root stays symbolic
round2(x) ==
    CASE x.k = "float" -> Float(round_half_even(x.n * 100, x.d), 100)
      [] x.k = "sqrt" -> [k |-> "round2", of |-> x]
      [] OTHER -> x

\* f"{x:.2f}" as text
format_2f(x) ==
    LET h == round_half_even(Abs(x.n) * 100, x.d)
        cents == h % 100
    IN  (IF x.n < 0 THEN <<"-">> ELSE <<>>)
            \o nat_digits(h \div 100) \o <<".">>
            \o <<Digits[(cents \div 10) + 1], Digits[(cents % 10) + 1]>>

\* sep.join(parts)
RECURSIVE join(_, _)
join(sep, parts) ==
    IF parts = <<>> THEN <<>>
    ELSE IF Len(parts) = 1 THEN parts[1]
    ELSE parts[1] \o sep \o join(sep, Tail(parts))

\* text.endswith(suffix)
endswith(text, suffix) ==
    /\ Len(text) >= Len(suffix)
    /\ SubSeq(text, Len(text) - Len(suffix) + 1, Len(text)) = suffix


(***************************************************************************)
(* The datastore: the Dataset and Equipment tables, rows in insertion      *)
(* order.  db == [datasets, equipments, next_id, clock].                   *)
(***************************************************************************)
EmptyDb ==
    [datasets |-> <<>>, equipments |-> <<>>, dynamic_records |-> <<>>, next_id |-> 1, clock |-> 1]

\* Dataset.objects.create(...): the primary key and uploaded_at (auto_now_add) are set
Dataset_objects_create(db, name, total_count, avg_flowrate, avg_pressure, avg_temperature) ==
    [db EXCEPT !.datasets = Append(@, [id |-> db.next_id,
                                       uploaded_at |-> db.clock,
                                       name |-> name,
                                       total_count |-> total_count,
                                       avg_flowrate |-> avg_flowrate,
                                       avg_pressure |-> avg_pressure,
                                       avg_temperature |-> avg_temperature]),
                !.next_id = @ + 1,
                !.clock = @ + 1]

\* Dataset.objects.create(...) of a dynamic dataset: the legacy averages are null
Dataset_objects_create_dynamic(db, name, total_count, column_structure, statistics) ==
    [db EXCEPT !.datasets = Append(@, [id |-> db.next_id,
                                       uploaded_at |-> db.clock,
                                       name |-> name,
                                       total_count |-> total_count,
                                       column_structure |-> column_structure,
                                       statistics |-> statistics,
                                       avg_flowrate |-> None,
                                       avg_pressure |-> None,
                                       avg_temperature |-> None]),
                !.next_id = @ + 1,
                !.clock = @ + 1]

\* DynamicData.objects.bulk_create(dynamic_records): one record per row of the frame
DynamicData_bulk_create(db, dataset_id, df) ==
    [db EXCEPT !.dynamic_records =
        @ \o [r \in 1..Len(df.rows) |->
                 [dataset |-> dataset_id, data |-> [columns |-> df.columns, row |-> df.rows[r]]]]]

\* Equipment.objects.create(...)
Equipment_objects_create(db, equipment) == [db EXCEPT !.equipments = Append(@, equipment)]

\* the database engines the settings select: Django's default, and settings_mongodb
Engines == {"sqlite3", "djongo"}

\* Equipment's float columns are NOT NULL; sqlite3 stores a NaN as NULL, so the
\* insert raises IntegrityError there, and djongo stores the NaN
Equipment_create_raises(engine, equipment) ==
    /\ engine = "sqlite3"
    /\ \/ equipment.flowrate = NaN
       \/ equipment.pressure = NaN
       \/ equipment.temperature = NaN

\* an ordering that lists the oldest dataset first
order_by_uploaded_at(rows) == rows

\* Dataset.objects.all(): Meta.ordering = ['-uploaded_at']
RECURSIVE order_by_uploaded_at_desc(_)
order_by_uploaded_at_desc(rows) ==
    IF rows = <<>> THEN <<>>
    ELSE LET i == CHOOSE i \in 1..Len(rows) :
                      \A j \in 1..Len(rows) : rows[j].uploaded_at <= rows[i].uploaded_at
         IN  <<rows[i]>>
                 \o order_by_uploaded_at_desc(SubSeq(rows, 1, i - 1) \o SubSeq(rows, i + 1, Len(rows)))

Dataset_objects_all(db) == order_by_uploaded_at_desc(db.datasets)

\* the number of datasets the retention keeps
KEEP == 5

\* a slice that holds one dataset at most: Dataset.objects.all()[5:6]
old_datasets_one(db) ==
    LET all == Dataset_objects_all(db)
    IN  [i \in 1..(IF Len(all) > KEEP THEN 1 ELSE 0) |-> all[KEEP + i].id]

\* Dataset.objects.all()[5:], evaluated: the ids of the datasets beyond the newest five
old_datasets(db) ==
    LET all == Dataset_objects_all(db)
    IN  [i \in 1..(IF Len(all) > KEEP THEN Len(all) - KEEP ELSE 0) |-> all[KEEP + i].id]

\* a delete that removes the dataset row alone
Dataset_delete_row(db, id) ==
    [db EXCEPT !.datasets = SelectSeq(@, LAMBDA d : d.id # id)]

\* old_dataset.delete(): the dataset and, by on_delete=CASCADE, its equipment rows
Dataset_delete(db, id) ==
    [db EXCEPT !.datasets = SelectSeq(@, LAMBDA d : d.id # id),
               !.equipments = SelectSeq(@, LAMBDA e : e.dataset # id),
               !.dynamic_records = SelectSeq(@, LAMBDA e : e.dataset # id)]

\* for old_dataset in old_datasets: old_dataset.delete()
RECURSIVE delete_each(_, _)
delete_each(db, ids) ==
    IF ids = <<>> THEN db ELSE delete_each(Dataset_delete(db, Head(ids)), Tail(ids))


(***************************************************************************)
(* DatasetViewSet.upload: the fixed-schema ingestion                       *)
(*   request == [has_file, name, size, content]                            *)
(*   content == [k |-> "csv", header, lines], or the exception that        *)
(*              decoding or pd.read_csv raises on it                       *)
(*   response == [status, data, extract_calls]; extract_calls counts the   *)
(*              calls of extract_numeric_value the handler made            *)
(***************************************************************************)
EQUIPMENT_NAME == <<"E", "q", "u", "i", "p", "m", "e", "n", "t", " ", "N", "a", "m", "e">>
TYPE == <<"T", "y", "p", "e">>
FLOWRATE == <<"F", "l", "o", "w", "r", "a", "t", "e">>
PRESSURE == <<"P", "r", "e", "s", "s", "u", "r", "e">>
TEMPERATURE == <<"T", "e", "m", "p", "e", "r", "a", "t", "u", "r", "e">>

required_columns == <<EQUIPMENT_NAME, TYPE, FLOWRATE, PRESSURE, TEMPERATURE>>
numeric_columns == <<FLOWRATE, PRESSURE, TEMPERATURE>>

\* 10 * 1024 * 1024
MAX_FILE_SIZE == 10485760

Msg(text) == [fmt |-> text]

Response(status, data, calls) == [status |-> status, data |-> data, extract_calls |-> calls]

ErrorResponse(text, calls) == Response(400, [error |-> Msg(text)], calls)

\* the missing names with the numeric columns listed first
missing_columns_numeric_first(df) ==
    SelectSeq(numeric_columns, LAMBDA col : ~in_columns(df, col))
        \o SelectSeq(<<EQUIPMENT_NAME, TYPE>>, LAMBDA col : ~in_columns(df, col))

\* [col for col in required_columns if col not in df.columns]
missing_columns(df) == SelectSeq(required_columns, LAMBDA col : ~in_columns(df, col))

is_numeric_column(col) == \E i \in 1..Len(numeric_columns) : numeric_columns[i] = col

\* a None returned by apply is a missing value (NaN) of the column
nan_if_none(v) == IF v = None THEN NaN ELSE v

\* for col in numeric_columns: df[col] = df[col].apply(extract_numeric_value)
apply_extract_numeric(df) ==
    [df EXCEPT !.rows =
        [r \in 1..Len(df.rows) |->
            [c \in 1..Len(df.columns) |->
                IF is_numeric_column(df.columns[c])
                THEN nan_if_none(extract_numeric_value(df.rows[r][c]))
                ELSE df.rows[r][c]]]]

\* df.dropna(subset=numeric_columns, how='all')
dropna_all_numeric(df) ==
    [df EXCEPT !.rows =
        SelectSeq(@, LAMBDA row :
            \E i \in 1..Len(numeric_columns) :
                IsFloat(row[columns_index(df, numeric_columns[i])]))]

MissingWarning(col, null_count) ==
    [fmt |-> "{col} has {null_count} missing or unparseable value(s) - rows will use average",
     col |-> col, null_count |-> null_count]

\* the loop over numeric_columns that warns and fills with the column mean,
\* from column i on
RECURSIVE fill_missing(_, _, _)
fill_missing(df, warnings, i) ==
    IF i > Len(numeric_columns) THEN [df |-> df, validation_warnings |-> warnings]
    ELSE LET col == numeric_columns[i]
             s == series(df, col)
             null_count == isnull_sum(s)
         IN  IF null_count > 0
             THEN fill_missing(set_series(df, col, fillna(s, series_mean(s))),
                               Append(warnings, MissingWarning(col, null_count)), i + 1)
             ELSE fill_missing(df, warnings, i + 1)

\* (s < bound).any(), (s > bound).any(): a NaN compares False
any_lt(s, bound) == \E r \in 1..Len(s) : IsFloat(s[r]) /\ FLt(s[r], bound)

\* a maximum that rejects the bound itself
any_ge(s, bound) == \E r \in 1..Len(s) : IsFloat(s[r]) /\ FLe(bound, s[r])

any_gt(s, bound) == \E r \in 1..Len(s) : IsFloat(s[r]) /\ FGt(s[r], bound)

\* str(cell), Series.astype(str)
cell_str(cell) ==
    CASE cell.k = "str" -> cell.s
      [] cell.k = "nan" -> <<"n", "a", "n">>
      [] cell.k = "int64" -> int_str(cell.i)

\* (s.astype(str).str.strip() == '').any()
any_blank(s) == \E r \in 1..Len(s) : strip(cell_str(s[r])) = <<>>

ABSOLUTE_ZERO == Float(-27315, 100)

WhenError(cond, text) == IF cond THEN <<text>> ELSE <<>>

\* checks that stop at the first violation
validation_errors_first(df) ==
    IF any_lt(series(df, FLOWRATE), Float(0, 1)) THEN <<"Flowrate cannot be negative">>
    ELSE IF any_gt(series(df, FLOWRATE), Float(10000, 1))
    THEN <<"Flowrate exceeds maximum allowed value (10000)">>
    ELSE IF any_lt(series(df, PRESSURE), Float(0, 1)) THEN <<"Pressure cannot be negative">>
    ELSE IF any_gt(series(df, PRESSURE), Float(1000, 1))
    THEN <<"Pressure exceeds maximum allowed value (1000)">>
    ELSE IF any_lt(series(df, TEMPERATURE), ABSOLUTE_ZERO)
    THEN <<"Temperature cannot be below absolute zero (-273.15°C)">>
    ELSE IF any_gt(series(df, TEMPERATURE), Float(5000, 1))
    THEN <<"Temperature exceeds maximum allowed value (5000°C)">>
    ELSE IF any_blank(series(df, EQUIPMENT_NAME)) THEN <<"Equipment Name cannot be empty">>
    ELSE IF any_blank(series(df, TYPE)) THEN <<"Equipment Type cannot be empty">>
    ELSE <<>>

\* the range and text checks, every one evaluated, in source order
validation_errors(df) ==
    WhenError(any_lt(series(df, FLOWRATE), Float(0, 1)), "Flowrate cannot be negative")
    \o WhenError(any_gt(series(df, FLOWRATE), Float(10000, 1)),
                 "Flowrate exceeds maximum allowed value (10000)")
    \o WhenError(any_lt(series(df, PRESSURE), Float(0, 1)), "Pressure cannot be negative")
    \o WhenError(any_gt(series(df, PRESSURE), Float(1000, 1)),
                 "Pressure exceeds maximum allowed value (1000)")
    \o WhenError(any_lt(series(df, TEMPERATURE), ABSOLUTE_ZERO),
                 "Temperature cannot be below absolute zero (-273.15°C)")
    \o WhenError(any_gt(series(df, TEMPERATURE), Float(5000, 1)),
                 "Temperature exceeds maximum allowed value (5000°C)")
    \o WhenError(any_blank(series(df, EQUIPMENT_NAME)), "Equipment Name cannot be empty")
    \o WhenError(any_blank(series(df, TYPE)), "Equipment Type cannot be empty")


EmptyFrame == [columns |-> <<>>, rows |-> <<>>]

Rejected(response) ==
    [rejected |-> TRUE, response |-> response, df |-> EmptyFrame, validation_warnings |-> <<>>]

\* validation_warnings if validation_warnings else None
list_or_none(items) == IF items # <<>> THEN [k |-> "list", items |-> items] ELSE None

\* the validation report: reject with every error and the warnings, or accept
checks_report(filled, errors, calls) ==
    IF errors # <<>>
    THEN [rejected |-> TRUE,
          response |-> Response(400,
              [error |-> Msg("Data validation failed"),
               validation_errors |-> errors,
               validation_warnings |-> list_or_none(filled.validation_warnings)], calls),
          df |-> filled.df,
          validation_warnings |-> filled.validation_warnings]
    ELSE [rejected |-> FALSE,
          response |-> Response(0, [error |-> Msg("")], calls),
          df |-> filled.df,
          validation_warnings |-> filled.validation_warnings]

\* after the rows without any reading are dropped: empty again, or fill and validate
checks_kept(kept, calls) ==
    IF df_empty(kept)
    THEN Rejected(ErrorResponse("CSV file contains no valid numeric data after parsing",
                                calls))
    ELSE checks_report(fill_missing(kept, <<>>, 1),
                       validation_errors(fill_missing(kept, <<>>, 1).df), calls)

\* the parsed frame: empty, a required column missing, or normalize and go on
checks_frame(df) ==
    IF df_empty(df) THEN Rejected(ErrorResponse("CSV file is empty", 0))
    ELSE IF missing_columns(df) # <<>>
    THEN Rejected(Response(400,
             [error |-> [fmt |-> "CSV is missing required columns: {}",
                         names |-> join(<<",", " ">>, missing_columns(df))]], 0))
    ELSE checks_kept(dropna_all_numeric(apply_extract_numeric(df)),
                     Len(numeric_columns) * Len(df.rows))

\* upload, up to the validation report: the response of a rejected request, or the
\* cleaned frame and the warnings of an accepted one
upload_checks(request) ==
    IF ~request.has_file THEN Rejected(ErrorResponse("No file provided", 0))
    ELSE IF ~endswith(request.name, <<".", "c", "s", "v">>)
    THEN Rejected(ErrorResponse("File must be CSV format", 0))
    ELSE IF request.size > MAX_FILE_SIZE
    THEN Rejected(ErrorResponse("File size must be less than 10MB", 0))
    ELSE IF request.content.k = "UnicodeDecodeError"
    THEN Rejected(ErrorResponse(
             "File encoding error. Please ensure the file is UTF-8 encoded", 0))
    ELSE IF request.content.k = "EmptyDataError"
    THEN Rejected(ErrorResponse("CSV file is empty or corrupted", 0))
    ELSE IF request.content.k = "ParserError"
    THEN Rejected(Response(400, [error |-> Msg("Failed to process CSV file"),
                                 details |-> Msg("ParserError")], 0))
    ELSE checks_frame(read_csv(request.content))

\* the five statistics of one column
column_stats(s) ==
    [mean |-> series_mean(s), min |-> series_min(s), max |-> series_max(s),
     std |-> series_std(s), median |-> series_median(s)]

rounded_stats(st) ==
    [average |-> round2(st.mean), min |-> round2(st.min), max |-> round2(st.max),
     std_dev |-> round2(st.std), median |-> round2(st.median)]

frame_stats(df) ==
    [flowrate |-> column_stats(series(df, FLOWRATE)),
     pressure |-> column_stats(series(df, PRESSURE)),
     temperature |-> column_stats(series(df, TEMPERATURE))]

\* the Equipment row of one frame row
equipment_of(df, row, dataset_id) ==
    [dataset |-> dataset_id,
     equipment_name |-> strip(cell_str(row[columns_index(df, EQUIPMENT_NAME)])),
     equipment_type |-> strip(cell_str(row[columns_index(df, TYPE)])),
     flowrate |-> row[columns_index(df, FLOWRATE)],
     pressure |-> row[columns_index(df, PRESSURE)],
     temperature |-> row[columns_index(df, TEMPERATURE)]]

\* for idx, row in df.iterrows(): Equipment.objects.create(...), from row r on;
\* the first insert that raises ends the loop
RECURSIVE create_equipments(_, _, _, _, _)
create_equipments(db, engine, dataset_id, df, r) ==
    IF r > Len(df.rows) THEN [db |-> db, raised |-> FALSE]
    ELSE IF Equipment_create_raises(engine, equipment_of(df, df.rows[r], dataset_id))
    THEN [db |-> db, raised |-> TRUE]
    ELSE create_equipments(
             Equipment_objects_create(db, equipment_of(df, df.rows[r], dataset_id)),
             engine, dataset_id, df, r + 1)

\* DatasetSerializer(dataset).data
DatasetSerializer(db, dataset) ==
    [id |-> dataset.id, name |-> dataset.name, total_count |-> dataset.total_count,
     avg_flowrate |-> dataset.avg_flowrate, avg_pressure |-> dataset.avg_pressure,
     avg_temperature |-> dataset.avg_temperature,
     equipments |-> SelectSeq(db.equipments, LAMBDA e : e.dataset = dataset.id)]

\* the 201 response: the serialized dataset, the rounded statistics, the warnings if any
success_response(db, dataset, stats, warnings, calls) ==
    Response(201,
        IF warnings # <<>>
        THEN [message |-> Msg("File uploaded successfully"),
              dataset |-> DatasetSerializer(db, dataset),
              statistics |-> [total_records |-> dataset.total_count,
                              flowrate |-> rounded_stats(stats.flowrate),
                              pressure |-> rounded_stats(stats.pressure),
                              temperature |-> rounded_stats(stats.temperature)],
              warnings |-> warnings]
        ELSE [message |-> Msg("File uploaded successfully"),
              dataset |-> DatasetSerializer(db, dataset),
              statistics |-> [total_records |-> dataset.total_count,
                              flowrate |-> rounded_stats(stats.flowrate),
                              pressure |-> rounded_stats(stats.pressure),
                              temperature |-> rounded_stats(stats.temperature)]],
        calls)

\* after the equipment loop: the insert that raised is caught (except Exception) and
\* answered 400 with what was stored left in place; else evict and answer 201
store_finish(created, dataset, stats, warnings, calls) ==
    IF created.raised
    THEN [response |-> Response(400, [error |-> Msg("Failed to process CSV file"),
                                      details |-> Msg("IntegrityError")], calls),
          db |-> created.db]
    ELSE [response |-> success_response(delete_each(created.db, old_datasets(created.db)),
                                        dataset, stats, warnings, calls),
          db |-> delete_each(created.db, old_datasets(created.db))]

\* with the dataset row stored in db1: create its equipment rows
store_equipments(db1, engine, df, stats, warnings, calls) ==
    store_finish(create_equipments(db1, engine, db1.datasets[Len(db1.datasets)].id, df, 1),
                 db1.datasets[Len(db1.datasets)], stats, warnings, calls)

\* with the statistics computed: create the dataset row
store_dataset(request, checked, db, engine, stats) ==
    store_equipments(
        Dataset_objects_create(db, request.name, Len(checked.df.rows), stats.flowrate.mean,
                               stats.pressure.mean, stats.temperature.mean),
        engine, checked.df, stats, checked.validation_warnings,
        checked.response.extract_calls)

\* upload, from the statistics on: store the dataset and its rows, evict, respond
upload_store(request, checked, db, engine) ==
    store_dataset(request, checked, db, engine, frame_stats(checked.df))

\* an upload that stores the cleaned frame even when the validation report rejects it
upload_respond_stores_rejected(request, checked, db, engine) ==
    IF checked.rejected
    THEN [response |-> checked.response,
          db |-> IF checked.df # EmptyFrame
                 THEN upload_store(request, checked, db, engine).db ELSE db]
    ELSE upload_store(request, checked, db, engine)

upload_respond(request, checked, db, engine) ==
    IF checked.rejected
    THEN [response |-> checked.response, db |-> db]
    ELSE upload_store(request, checked, db, engine)

\* DatasetViewSet.upload
upload(request, db, engine) == upload_respond(request, upload_checks(request), db, engine)

(***************************************************************************)
(* dynamic_csv_handler: detect_column_types and process_dynamic_csv.       *)
(* sample gives, for each column, the rows that Series.sample draws: any   *)
(* min(5, n) of the n rows whose cell is not missing.                      *)
(***************************************************************************)
IdKeywords == <<<<"i", "d">>, <<"n", "a", "m", "e">>, <<"c", "o", "d", "e">>, <<"s", "e", "r", "i", "a", "l">>>>

\* the rows of column c whose cell is not missing: df[col].dropna()
non_null_rows(df, c) == {r \in 1..Len(df.rows) : ~pd_isna(df.rows[r][c])}

\* a sample of two values at most
SampleSizeTwo(n) == IF n < 2 THEN n ELSE 2

SampleSize(n) == IF n < 5 THEN n ELSE 5

\* every outcome of non_null_values.sample(min(5, len(non_null_values))), per column
column_samples(df, c) ==
    {s \in SUBSET non_null_rows(df, c) :
        Cardinality(s) = SampleSize(Cardinality(non_null_rows(df, c)))}

RECURSIVE samples_from(_, _)
samples_from(df, c) ==
    IF c > Len(df.columns) THEN {<<>>}
    ELSE {<<s>> \o rest : s \in column_samples(df, c), rest \in samples_from(df, c + 1)}

Samples(df) == samples_from(df, 1)

\* the number of sampled values of column c that extract_numeric_value turns into a number
numeric_count(df, sample, c) ==
    Cardinality({r \in sample[c] : dyn_extract_numeric_value(df.rows[r][c]) # None})

\* a loop that takes a keyword column for the id column before it looks at its cells
RECURSIVE detect_columns_keyword_first(_, _, _, _)
detect_columns_keyword_first(df, sample, c, column_types) ==
    IF c > Len(df.columns) THEN column_types
    ELSE IF /\ column_types.id_column = None
            /\ \E k \in 1..Len(IdKeywords) : contains(lower(df.columns[c]), IdKeywords[k])
    THEN detect_columns_keyword_first(df, sample, c + 1,
                        [column_types EXCEPT !.id_column = Str(df.columns[c])])
    ELSE IF non_null_rows(df, c) = {}
    THEN detect_columns_keyword_first(df, sample, c + 1, column_types)
    ELSE IF 2 * numeric_count(df, sample, c) > Cardinality(sample[c])
    THEN detect_columns_keyword_first(df, sample, c + 1,
                        [column_types EXCEPT !.numeric_columns = Append(@, df.columns[c])])
    ELSE detect_columns_keyword_first(df, sample, c + 1,
                        [column_types EXCEPT !.category_columns = Append(@, df.columns[c])])

\* a loop that takes a column of which half the sample is numeric for numeric
RECURSIVE detect_columns_half(_, _, _, _)
detect_columns_half(df, sample, c, column_types) ==
    IF c > Len(df.columns) THEN column_types
    ELSE IF non_null_rows(df, c) = {}
    THEN detect_columns_half(df, sample, c + 1, column_types)
    ELSE IF /\ column_types.id_column = None
            /\ \E k \in 1..Len(IdKeywords) : contains(lower(df.columns[c]), IdKeywords[k])
    THEN detect_columns_half(df, sample, c + 1,
                        [column_types EXCEPT !.id_column = Str(df.columns[c])])
    ELSE IF 2 * numeric_count(df, sample, c) >= Cardinality(sample[c])
    THEN detect_columns_half(df, sample, c + 1,
                        [column_types EXCEPT !.numeric_columns = Append(@, df.columns[c])])
    ELSE detect_columns_half(df, sample, c + 1,
                        [column_types EXCEPT !.category_columns = Append(@, df.columns[c])])

\* the loop over df.columns, from column c on
RECURSIVE detect_columns(_, _, _, _)
detect_columns(df, sample, c, column_types) ==
    IF c > Len(df.columns) THEN column_types
    ELSE IF non_null_rows(df, c) = {}
    THEN detect_columns(df, sample, c + 1, column_types)
    ELSE IF /\ column_types.id_column = None
            /\ \E k \in 1..Len(IdKeywords) : contains(lower(df.columns[c]), IdKeywords[k])
    THEN detect_columns(df, sample, c + 1,
                        [column_types EXCEPT !.id_column = Str(df.columns[c])])
    ELSE IF 2 * numeric_count(df, sample, c) > Cardinality(sample[c])
    THEN detect_columns(df, sample, c + 1,
                        [column_types EXCEPT !.numeric_columns = Append(@, df.columns[c])])
    ELSE detect_columns(df, sample, c + 1,
                        [column_types EXCEPT !.category_columns = Append(@, df.columns[c])])

\* the first column stands in for an id column that was not found
first_column_if_none(df, column_types) ==
    IF column_types.id_column = None /\ Len(df.columns) > 0
    THEN [column_types EXCEPT !.id_column = Str(df.columns[1])]
    ELSE column_types

detect_column_types(df, sample) ==
    first_column_if_none(df,
        detect_columns(df, sample, 1,
            [id_column |-> None, category_columns |-> <<>>, numeric_columns |-> <<>>]))

\* Series.isna().sum(): the missing cells of a column read from the file
isna_sum(s) == Cardinality({r \in 1..Len(s) : pd_isna(s[r])})

\* df[col].apply(extract_numeric_value)
dyn_apply(s) == [r \in 1..Len(s) |-> nan_if_none(dyn_extract_numeric_value(s[r]))]

CouldNotParse(col, failed_count) ==
    [fmt |-> "{col}: {failed_count} values could not be parsed",
     col |-> col, failed_count |-> failed_count]

FilledWithMean(col, mean_val) ==
    [fmt |-> "{col}: Missing values filled with mean ({mean_val:.2f})",
     col |-> col, mean_val |-> format_2f(mean_val)]

\* the count of the cells that were present in the file and are missing after apply
failed_count(original_col, applied) == isnull_sum(applied) - isna_sum(original_col)

\* a step that warns of the fill and leaves the missing values as they are
process_column_no_fill(df, warnings, col, original_col, applied) ==
    LET warned == IF failed_count(original_col, applied) > 0
                  THEN Append(warnings, CouldNotParse(col, failed_count(original_col, applied)))
                  ELSE warnings
    IN  IF isnull_sum(applied) > 0 /\ series_mean(applied) # NaN
        THEN [df |-> set_series(df, col, applied),
              validation_warnings |-> Append(warned, FilledWithMean(col, series_mean(applied)))]
        ELSE [df |-> set_series(df, col, applied), validation_warnings |-> warned]

\* one numeric column: the warning of the unparseable values, then the fill with the mean
process_column(df, warnings, col, original_col, applied) ==
    LET warned == IF failed_count(original_col, applied) > 0
                  THEN Append(warnings, CouldNotParse(col, failed_count(original_col, applied)))
                  ELSE warnings
    IN  IF isnull_sum(applied) > 0 /\ series_mean(applied) # NaN
        THEN [df |-> set_series(df, col, fillna(applied, series_mean(applied))),
              validation_warnings |-> Append(warned, FilledWithMean(col, series_mean(applied)))]
        ELSE [df |-> set_series(df, col, applied), validation_warnings |-> warned]

\* a loop that takes the numeric columns last to first
RECURSIVE process_columns_backwards(_, _, _, _)
process_columns_backwards(df, warnings, cols, i) ==
    IF i > Len(cols) THEN [df |-> df, validation_warnings |-> warnings]
    ELSE LET col == cols[Len(cols) + 1 - i]
             done == process_column(df, warnings, col, series(df, col),
                                    dyn_apply(series(df, col)))
         IN  process_columns_backwards(done.df, done.validation_warnings, cols, i + 1)

\* for col in column_types['numeric_columns'], from the i-th on
RECURSIVE process_columns(_, _, _, _)
process_columns(df, warnings, cols, i) ==
    IF i > Len(cols) THEN [df |-> df, validation_warnings |-> warnings]
    ELSE LET done == process_column(df, warnings, cols[i], series(df, cols[i]),
                                    dyn_apply(series(df, cols[i])))
         IN  process_columns(done.df, done.validation_warnings, cols, i + 1)

\* df.dropna(how='all')
dropna_all(df) ==
    [df EXCEPT !.rows = SelectSeq(@, LAMBDA row : \E c \in 1..Len(row) : ~pd_isna(row[c]))]

\* the frame returned, the metadata, and the caller's frame, which the column
\* assignments have changed in place
processed_result(column_types, done) ==
    [df |-> dropna_all(done.df),
     metadata |-> [column_types |-> column_types,
                   validation_warnings |-> done.validation_warnings,
                   total_rows |-> Len(dropna_all(done.df).rows),
                   total_columns |-> Len(done.df.columns)],
     argument |-> done.df]

process_with(df, column_types) ==
    processed_result(column_types, process_columns(df, <<>>, column_types.numeric_columns, 1))

process_dynamic_csv(df, sample) == process_with(df, detect_column_types(df, sample))

\* Series.std() of more than one value, 0.0 of one
dynamic_std(col_data) == IF Len(present_values(col_data)) > 1 THEN series_std(col_data) ELSE Float(0, 1)

\* the statistics of one numeric column
dynamic_column_stats(col, col_data) ==
    [col |-> col,
     mean |-> series_mean(col_data), min |-> series_min(col_data), max |-> series_max(col_data),
     std_dev |-> dynamic_std(col_data), median |-> series_median(col_data),
     count |-> Len(present_values(col_data))]

\* calculate_dynamic_statistics: the entries of the stats dict, in insertion order
RECURSIVE calculate_dynamic_statistics(_, _)
calculate_dynamic_statistics(df, cols) ==
    IF cols = <<>> THEN <<>>
    ELSE IF in_columns(df, Head(cols)) /\ Len(present_values(series(df, Head(cols)))) > 0
    THEN <<dynamic_column_stats(Head(cols), series(df, Head(cols)))>>
             \o calculate_dynamic_statistics(df, Tail(cols))
    ELSE calculate_dynamic_statistics(df, Tail(cols))

\* s[:n]
take(s, n) == SubSeq(s, 1, IF Len(s) < n THEN Len(s) ELSE n)

\* a bar chart of every numeric column
bar_chart_unlimited(cols) ==
    [type |-> "bar", title |-> Msg("Average Values Comparison"), columns |-> cols,
     description |-> Msg("Comparison of average values across numeric fields")]

bar_chart(cols) ==
    [type |-> "bar", title |-> Msg("Average Values Comparison"), columns |-> take(cols, 6),
     description |-> Msg("Comparison of average values across numeric fields")]

pie_chart(main_category) ==
    [type |-> "pie",
     title |-> [fmt |-> "{main_category} Distribution", main_category |-> main_category],
     column |-> main_category,
     description |-> [fmt |-> "Distribution of records by {main_category}",
                      main_category |-> main_category]]

scatter_chart(cols) ==
    [type |-> "scatter", title |-> Msg("Correlation Analysis"),
     x_column |-> cols[1], y_column |-> cols[2],
     description |-> Msg("Relationship between key numeric variables")]

\* create_visualizations_config: the charts, appended in source order
create_visualizations_config(column_types, sample_data) ==
    (IF column_types.numeric_columns # <<>>
     THEN <<bar_chart(column_types.numeric_columns)>> ELSE <<>>)
        \o (IF column_types.category_columns # <<>>
            THEN <<pie_chart(column_types.category_columns[1])>> ELSE <<>>)
        \o (IF Len(column_types.numeric_columns) >= 2
            THEN <<scatter_chart(column_types.numeric_columns)>> ELSE <<>>)

\* df.head(n)
head(df, n) == [df EXCEPT !.rows = take(@, n)]

(***************************************************************************)
(* DatasetViewSet.upload_dynamic: the ingestion of a file of any columns.  *)
(* A dict is a record; d[key] of a key the dict lacks raises KeyError,     *)
(* which the handler's except Exception turns into a 400 whose details     *)
(* are str(e), the quoted key (the traceback text is left out).            *)
(***************************************************************************)
has_key(dict, key) == key \in DOMAIN dict

KeyErrorResponse(key) ==
    Response(400, [error |-> Msg("Failed to process CSV file"),
                   details |-> [fmt |-> "KeyError", key |-> key]], 0)

\* upload_dynamic, up to the parsed frame: the response of a rejected request, or the frame
dynamic_checks(request) ==
    IF ~request.has_file THEN Rejected(ErrorResponse("No file provided", 0))
    ELSE IF ~endswith(request.name, <<".", "c", "s", "v">>)
    THEN Rejected(ErrorResponse("File must be CSV format", 0))
    ELSE IF request.size > MAX_FILE_SIZE
    THEN Rejected(ErrorResponse("File size must be less than 10MB", 0))
    ELSE IF request.content.k = "UnicodeDecodeError"
    THEN Rejected(ErrorResponse(
             "File encoding error. Please ensure the file is UTF-8 encoded", 0))
    ELSE IF request.content.k = "EmptyDataError"
    THEN Rejected(ErrorResponse("CSV file is empty or corrupted", 0))
    ELSE IF request.content.k = "ParserError"
    THEN Rejected(Response(400, [error |-> Msg("Failed to process CSV file"),
                                 details |-> Msg("ParserError")], 0))
    ELSE IF df_empty(read_csv(request.content))
    THEN Rejected(ErrorResponse("CSV file is empty", 0))
    ELSE [rejected |-> FALSE, response |-> Response(0, [error |-> Msg("")], 0),
          df |-> read_csv(request.content), validation_warnings |-> <<>>]

\* metadata.get('warnings', [])
get_warnings(metadata) == IF has_key(metadata, "warnings") THEN metadata.warnings ELSE <<>>

\* the 201 response; the caller's frame df was changed by process_dynamic_csv but
\* keeps its columns
dynamic_success(dataset, processed, statistics, visualizations) ==
    Response(201,
        [message |-> Msg("CSV file uploaded and processed successfully"),
         dataset_id |-> dataset.id,
         dataset_name |-> dataset.name,
         total_records |-> Len(processed.df.rows),
         data_type |-> "dynamic",
         metadata |-> [detected_columns |->
                           [id_columns |-> processed.metadata.column_types.id_columns,
                            category_columns |-> processed.metadata.column_types.category_columns,
                            numeric_columns |-> processed.metadata.column_types.numeric_columns],
                       total_columns |-> Len(processed.argument.columns),
                       sample_data |-> head(processed.df, 5).rows],
         statistics |-> statistics,
         visualizations |-> visualizations,
         warnings |-> get_warnings(processed.metadata)], 0)

\* with the dataset row and its records stored in db2: build the response, which
\* reads column_types['id_columns']
dynamic_respond(db2, dataset, processed, statistics, visualizations) ==
    IF ~has_key(processed.metadata.column_types, "id_columns")
    THEN [response |-> KeyErrorResponse("id_columns"), db |-> db2]
    ELSE [response |-> dynamic_success(dataset, processed, statistics, visualizations),
          db |-> db2]

\* with the dataset row stored in db1: bulk-create its records
dynamic_store_records(db1, processed, statistics, visualizations) ==
    dynamic_respond(
        DynamicData_bulk_create(db1, db1.datasets[Len(db1.datasets)].id, processed.df),
        db1.datasets[Len(db1.datasets)], processed, statistics, visualizations)

\* with the statistics computed: create the dataset row
dynamic_store(request, processed, db, statistics) ==
    dynamic_store_records(
        Dataset_objects_create_dynamic(db, request.name, Len(processed.df.rows),
                                       processed.metadata.column_types, statistics),
        processed, statistics,
        create_visualizations_config(processed.metadata.column_types, head(processed.df, 100)))

\* upload_dynamic, from the processed frame on: the test of metadata['is_valid'],
\* then the statistics, the charts, the dataset and the response
dynamic_process(request, processed, db) ==
    IF ~has_key(processed.metadata, "is_valid")
    THEN [response |-> KeyErrorResponse("is_valid"), db |-> db]
    ELSE IF ~processed.metadata.is_valid
    THEN [response |-> Response(400,
              [error |-> Msg("Invalid CSV structure"),
               details |-> IF has_key(processed.metadata, "error")
                           THEN processed.metadata.error
                           ELSE Msg("Unable to detect valid data structure")], 0),
          db |-> db]
    ELSE dynamic_store(request, processed, db,
             calculate_dynamic_statistics(processed.df,
                                          processed.metadata.column_types.numeric_columns))

\* DatasetViewSet.upload_dynamic; sample is what detect_column_types draws
upload_dynamic_of(request, checked, db, sample) ==
    IF checked.rejected
    THEN [response |-> checked.response, db |-> db]
    ELSE dynamic_process(request, process_dynamic_csv(checked.df, sample), db)

upload_dynamic(request, db, sample) ==
    upload_dynamic_of(request, dynamic_checks(request), db, sample)

\* the samples detect_column_types can draw on the frame of a request, none for a
\* request that is answered before the frame is processed
request_samples(checked) ==
    IF checked.rejected THEN {<<>>} ELSE Samples(checked.df)


(***************************************************************************)
(* The accounts: the User, Token and PasswordResetOTP tables of the        *)
(* datastore, rows in insertion order, and the wall clock in minutes.  A   *)
(* field of a request body is None when the body lacks it and Str(text)    *)
(* otherwise.  auth_user.username is unique in the database, auth_user.    *)
(* email is not; authtoken_token.user is unique.  A token key is 20 random *)
(* bytes, taken as never drawn twice: the keys are numbered as issued.  A  *)
(* one-time password is six random digits and may repeat: each request     *)
(* draws it from OtpCodes.                                                 *)
(***************************************************************************)
NoAccounts ==
    [users |-> <<>>, tokens |-> <<>>, otps |-> <<>>,
     next_user |-> 1, next_otp |-> 1, next_key |-> 1, now |-> 0]

AuthResult(acc, status, data) == [accounts |-> acc, response |-> Response(status, data, 0)]

\* not value
falsy(value) == value.k = "none" \/ Len(value.s) = 0

\* BaseUserManager.normalize_email: email.strip().rsplit("@", 1), the domain part lowered
RECURSIVE last_at(_, _)
last_at(s, i) ==
    IF i = 0 THEN 0
    ELSE IF s[i] = "@" THEN i
    ELSE last_at(s, i - 1)

normalize_email(email) ==
    LET stripped == strip(email)
        at == last_at(stripped, Len(stripped))
    IN  IF at = 0 THEN email
        ELSE SubSeq(stripped, 1, at) \o lower(SubSeq(stripped, at + 1, Len(stripped)))

\* set_password and check_password: the password is stored hashed
make_password(raw) == [algorithm |-> "pbkdf2_sha256", raw |-> raw]
check_password(raw, encoded) == encoded.raw = raw

User_filter_username(acc, username) == SelectSeq(acc.users, LAMBDA u : u.username = username)
User_filter_email(acc, email) == SelectSeq(acc.users, LAMBDA u : u.email = email)
User_exists(acc, id) == \E i \in 1..Len(acc.users) : acc.users[i].id = id

\* User.objects.create_user, which the unique index on username can refuse
create_user(acc, username, email, password) ==
    IF Len(User_filter_username(acc, username)) > 0
    THEN [ok |-> FALSE, accounts |-> acc, id |-> 0]
    ELSE [ok |-> TRUE,
          accounts |-> [acc EXCEPT !.users = Append(@, [id |-> acc.next_user,
                                                        username |-> username,
                                                        email |-> normalize_email(email),
                                                        password |-> make_password(password)]),
                                   !.next_user = @ + 1],
          id |-> acc.next_user]

\* user.save() of a loaded user: UPDATE of its row, INSERT when the row is gone, which
\* the unique index on username can refuse
User_save(acc, user) ==
    IF User_exists(acc, user.id)
    THEN [ok |-> TRUE,
          accounts |-> [acc EXCEPT !.users = [i \in 1..Len(@) |->
                                                 IF @[i].id = user.id THEN user ELSE @[i]]]]
    ELSE IF Len(User_filter_username(acc, user.username)) > 0
    THEN [ok |-> FALSE, accounts |-> acc]
    ELSE [ok |-> TRUE, accounts |-> [acc EXCEPT !.users = Append(@, user)]]

\* PasswordResetOTP.objects.filter(user=user, is_used=False).update(is_used=True)
PasswordResetOTP_invalidate(acc, user_id) ==
    [acc EXCEPT !.otps = [i \in 1..Len(@) |->
                             IF @[i].user_id = user_id /\ ~@[i].is_used
                             THEN [@[i] EXCEPT !.is_used = TRUE]
                             ELSE @[i]]]

\* PasswordResetOTP.objects.create(user=user, otp=otp_code); save sets expires_at
PasswordResetOTP_create(acc, user_id, otp_code) ==
    [acc EXCEPT !.otps = Append(@, [id |-> acc.next_otp,
                                    user_id |-> user_id,
                                    otp |-> otp_code,
                                    created_at |-> acc.now,
                                    expires_at |-> acc.now + 5,
                                    is_used |-> FALSE]),
                !.next_otp = @ + 1]

\* PasswordResetOTP.objects.filter(user=user, otp=otp_code, is_used=False)
PasswordResetOTP_filter(acc, user_id, otp_code) ==
    SelectSeq(acc.otps, LAMBDA o : o.user_id = user_id /\ o.otp = otp_code /\ ~o.is_used)


\* a one-time password held valid in the minute it expires
is_valid_until(otp, now) == ~otp.is_used /\ now <= otp.expires_at

is_valid(otp, now) == ~otp.is_used /\ now < otp.expires_at

\* otp.is_used = True; otp.save()
PasswordResetOTP_use(acc, otp) ==
    [acc EXCEPT !.otps = [i \in 1..Len(@) |->
                             IF @[i].id = otp.id THEN [otp EXCEPT !.is_used = TRUE] ELSE @[i]]]

AuthErrorOccurred(acc) ==
    AuthResult(acc, 500, [error |-> Msg("An error occurred. Please try again.")])

\* POST auth/password-reset/request/; otp_code is what generate_otp draws, mail_sent
\* whether send_mail returns
request_password_reset_send(acc, email, mail_sent) ==
    IF mail_sent
    THEN AuthResult(acc, 200, [message |-> Msg("OTP has been sent to your email address"),
                               email |-> email])
    ELSE AuthResult(acc, 500, [error |-> Msg("Failed to send email. Please try again later.")])

request_password_reset(request, acc, otp_code, mail_sent) ==
    IF falsy(request.email)
    THEN AuthResult(acc, 400, [error |-> Msg("Email is required")])
    ELSE LET found == User_filter_email(acc, request.email.s)
         IN  IF Len(found) = 0
             THEN AuthResult(acc, 200,
                      [message |-> Msg("If an account exists with this email, you will receive an OTP shortly.")])
             ELSE IF Len(found) > 1
             THEN AuthErrorOccurred(acc)
             ELSE request_password_reset_send(
                      PasswordResetOTP_create(PasswordResetOTP_invalidate(acc, found[1].id),
                                              found[1].id, otp_code),
                      request.email.s, mail_sent)

\* POST auth/password-reset/verify/
verify_otp_found(acc, otps, otp_code) ==
    IF Len(otps) = 0
    THEN AuthResult(acc, 400, [error |-> Msg("Invalid OTP")])
    ELSE IF Len(otps) > 1
    THEN AuthErrorOccurred(acc)
    ELSE IF ~is_valid(otps[1], acc.now)
    THEN AuthResult(acc, 400, [error |-> Msg("OTP has expired. Please request a new one.")])
    ELSE AuthResult(acc, 200, [message |-> Msg("OTP verified successfully"), token |-> otp_code])

verify_otp(request, acc) ==
    IF falsy(request.email) \/ falsy(request.otp)
    THEN AuthResult(acc, 400, [error |-> Msg("Email and OTP are required")])
    ELSE LET found == User_filter_email(acc, request.email.s)
         IN  IF Len(found) = 0
             THEN AuthResult(acc, 400, [error |-> Msg("Invalid OTP")])
             ELSE IF Len(found) > 1
             THEN AuthErrorOccurred(acc)
             ELSE verify_otp_found(acc, PasswordResetOTP_filter(acc, found[1].id, request.otp.s),
                                   request.otp.s)

\* POST auth/password-reset/reset/
reset_password_found(acc, user, otps, new_password) ==
    IF Len(otps) = 0
    THEN AuthResult(acc, 400, [error |-> Msg("Invalid OTP")])
    ELSE IF Len(otps) > 1
    THEN AuthErrorOccurred(acc)
    ELSE IF ~is_valid(otps[1], acc.now)
    THEN AuthResult(acc, 400, [error |-> Msg("OTP has expired. Please request a new one.")])
    ELSE AuthResult(
             PasswordResetOTP_use(
                 User_save(acc, [user EXCEPT !.password = make_password(new_password)]).accounts,
                 otps[1]),
             200,
             [message |-> Msg("Password has been reset successfully. You can now login with your new password.")])

reset_password(request, acc) ==
    IF falsy(request.email) \/ falsy(request.otp) \/ falsy(request.new_password)
    THEN AuthResult(acc, 400, [error |-> Msg("Email, OTP, and new password are required")])
    ELSE IF Len(request.new_password.s) < 8
    THEN AuthResult(acc, 400, [error |-> Msg("Password must be at least 8 characters long")])
    ELSE LET found == User_filter_email(acc, request.email.s)
         IN  IF Len(found) = 0
             THEN AuthResult(acc, 400, [error |-> Msg("Invalid request")])
             ELSE IF Len(found) > 1
             THEN AuthErrorOccurred(acc)
             ELSE reset_password_found(acc, found[1],
                      PasswordResetOTP_filter(acc, found[1].id, request.otp.s),
                      request.new_password.s)


\* the tokens of the user left in place
Token_keep(acc, user_id) == acc

\* Token.objects.filter(user=user)
Token_filter(acc, user_id) == SelectSeq(acc.tokens, LAMBDA t : t.user_id = user_id)

\* Token.objects.filter(user=user).delete()
Token_delete(acc, user_id) ==
    [acc EXCEPT !.tokens = SelectSeq(@, LAMBDA t : t.user_id # user_id)]


\* Token.objects.create(user=user), which the unique index on user can refuse
Token_create(acc, user_id) ==
    IF Len(Token_filter(acc, user_id)) > 0
    THEN [ok |-> FALSE, accounts |-> acc, key |-> 0]
    ELSE [ok |-> TRUE,
          accounts |-> [acc EXCEPT !.tokens = Append(@, [key |-> acc.next_key, user_id |-> user_id]),
                                   !.next_key = @ + 1],
          key |-> acc.next_key]

\* Token.objects.get_or_create(user=user)
Token_get_or_create(acc, user_id) ==
    IF Len(Token_filter(acc, user_id)) > 0
    THEN [ok |-> TRUE, accounts |-> acc, key |-> Token_filter(acc, user_id)[1].key]
    ELSE Token_create(acc, user_id)

\* user.delete(): the tokens and the one-time passwords of the user go with it
User_delete(acc, user_id) ==
    [acc EXCEPT !.users = SelectSeq(@, LAMBDA u : u.id # user_id),
                !.tokens = SelectSeq(@, LAMBDA t : t.user_id # user_id),
                !.otps = SelectSeq(@, LAMBDA o : o.user_id # user_id)]

\* TokenAuthentication: the users the key of the request authenticates, none or one
request_user(acc, key) ==
    SelectSeq(acc.users, LAMBDA u : \E i \in 1..Len(acc.tokens) :
                                        acc.tokens[i].key = key /\ acc.tokens[i].user_id = u.id)

Unauthorized(acc) == AuthResult(acc, 401, [detail |-> Msg("Invalid token.")])

UserData(user) == [id |-> user.id, username |-> user.username, email |-> user.email]

\* POST auth/register/; the IntegrityError of create_user is not caught
register_user_created(created) ==
    LET token == Token_get_or_create(created.accounts, created.id)
    IN  AuthResult(token.accounts, 201,
                   [message |-> Msg("User registered successfully"),
                    token |-> token.key,
                    user |-> UserData(SelectSeq(token.accounts.users,
                                                LAMBDA u : u.id = created.id)[1])])

register_user(request, acc) ==
    IF falsy(request.username) \/ falsy(request.password) \/ falsy(request.email)
    THEN AuthResult(acc, 400, [error |-> Msg("Username, email, and password are required")])
    ELSE IF Len(User_filter_username(acc, request.username.s)) > 0
    THEN AuthResult(acc, 400, [error |-> Msg("Username already exists")])
    ELSE IF Len(User_filter_email(acc, request.email.s)) > 0
    THEN AuthResult(acc, 400, [error |-> Msg("Email already registered")])
    ELSE register_user_created(
             create_user(acc, request.username.s, request.email.s, request.password.s))

\* POST auth/register-enhanced/
register(request, acc) ==
    IF falsy(request.username) \/ falsy(request.email) \/ falsy(request.password)
    THEN AuthResult(acc, 400, [error |-> Msg("Username, email, and password are required")])
    ELSE IF Len(request.password.s) < 8
    THEN AuthResult(acc, 400, [error |-> Msg("Password must be at least 8 characters long")])
    ELSE IF Len(User_filter_username(acc, request.username.s)) > 0
    THEN AuthResult(acc, 400, [error |-> Msg("Username already exists")])
    ELSE IF Len(User_filter_email(acc, request.email.s)) > 0
    THEN AuthResult(acc, 400,
             [error |-> Msg("Email already registered. If you deleted your account, please use a different email or contact support.")])
    ELSE AuthResult(create_user(acc, request.username.s, request.email.s, request.password.s).accounts,
                    201,
                    [message |-> Msg("Registration successful. Please login."),
                     username |-> request.username.s])

\* POST auth/login/
login_user_token(token, user) ==
    AuthResult(token.accounts, 200,
               [message |-> Msg("Login successful"), token |-> token.key, user |-> UserData(user)])

login_user(request, acc) ==
    IF falsy(request.username) \/ falsy(request.password)
    THEN AuthResult(acc, 400, [error |-> Msg("Username and password required")])
    ELSE LET found == SelectSeq(User_filter_username(acc, request.username.s),
                                LAMBDA u : check_password(request.password.s, u.password))
         IN  IF Len(found) = 0
             THEN AuthResult(acc, 401, [error |-> Msg("Invalid credentials")])
             ELSE login_user_token(Token_get_or_create(acc, found[1].id), found[1])

\* POST auth/change-password/
change_password_as(user, request, acc) ==
    IF falsy(request.current_password) \/ falsy(request.new_password)
    THEN AuthResult(acc, 400, [error |-> Msg("Current password and new password are required")])
    ELSE IF ~check_password(request.current_password.s, user.password)
    THEN AuthResult(acc, 400, [error |-> Msg("Current password is incorrect")])
    ELSE IF Len(request.new_password.s) < 8
    THEN AuthResult(acc, 400, [error |-> Msg("New password must be at least 8 characters long")])
    ELSE AuthResult(
             Token_create(
                 Token_delete(
                     User_save(acc, [user EXCEPT !.password = make_password(request.new_password.s)]).accounts,
                     user.id),
                 user.id).accounts,
             200, [message |-> Msg("Password changed successfully")])

change_password(request, acc) ==
    IF Len(request_user(acc, request.token)) = 0
    THEN Unauthorized(acc)
    ELSE change_password_as(request_user(acc, request.token)[1], request, acc)

\* PUT auth/update-profile/
update_profile_as(user, request, acc) ==
    IF falsy(request.email)
    THEN AuthResult(acc, 400, [error |-> Msg("Email is required")])
    ELSE IF \E i \in 1..Len(acc.users) :
                acc.users[i].email = request.email.s /\ acc.users[i].id # user.id
    THEN AuthResult(acc, 400, [error |-> Msg("Email is already in use by another account")])
    ELSE AuthResult(User_save(acc, [user EXCEPT !.email = request.email.s]).accounts,
                    200,
                    [message |-> Msg("Profile updated successfully"), email |-> request.email.s])

update_profile(request, acc) ==
    IF Len(request_user(acc, request.token)) = 0
    THEN Unauthorized(acc)
    ELSE update_profile_as(request_user(acc, request.token)[1], request, acc)

\* DELETE auth/delete-account/
delete_account(request, acc) ==
    IF Len(request_user(acc, request.token)) = 0
    THEN Unauthorized(acc)
    ELSE AuthResult(User_delete(Token_delete(acc, request_user(acc, request.token)[1].id),
                                request_user(acc, request.token)[1].id),
                    200, [message |-> Msg("Account deleted successfully")])

(***************************************************************************)
(* Requests                                                                *)
(***************************************************************************)
NoRequest == [has_file |-> FALSE, name |-> <<>>, size |-> 0, content |-> [k |-> "none"]]
NoResponse == Response(0, [error |-> Msg("")], 0)

\* the decoded file of a table given by its header and its rows, a row giving the
\* text of each required column in required_columns order
required_index(col) == CHOOSE i \in 1..5 : required_columns[i] = col
FLOWRATE_LOWER == <<"f", "l", "o", "w", "r", "a", "t", "e">>
NOTES == <<"N", "o", "t", "e", "s">>

csv_cell(col, row) ==
    IF \E i \in 1..5 : required_columns[i] = col THEN row[required_index(col)]
    ELSE IF col = FLOWRATE_LOWER THEN row[3]
    ELSE <<"c", "h", "e", "c", "k", "e", "d">>

Csv(header, rows) ==
    [k |-> "csv", header |-> header,
     lines |-> [r \in 1..Len(rows) |-> [c \in 1..Len(header) |-> csv_cell(header[c], rows[r])]]]

FileRequest(name, size, content) ==
    [has_file |-> TRUE, name |-> name, size |-> size, content |-> content]

CsvRequest(header, rows) == FileRequest(<<"d", "a", "t", "a", ".", "c", "s", "v">>, 2048, Csv(header, rows))

\* the rows of the specification's scenario, and a row without any reading
PUMP_1 == <<<<"P", "u", "m", "p", "-", "1">>, <<"P", "u", "m", "p">>, <<"1", "2", "0", " ", "L", "/", "m", "i", "n">>, <<"4", "5", " ", "p", "s", "i">>, <<"8", "0", "C">>>>
PUMP_2 == <<<<"P", "u", "m", "p", "-", "2">>, <<"P", "u", "m", "p">>, <<"N", "/", "A">>, <<"5", "0">>, <<"9", "0">>>>
PUMP_3 == <<<<"P", "u", "m", "p", "-", "3">>, <<"P", "u", "m", "p">>, <<"N", "/", "A">>, <<>>, <<"A", "m", "b", "i", "e", "n", "t">>>>

ReferenceRequest == CsvRequest(required_columns, <<PUMP_1>>)


MaxRows == 2
MaxSeeds == 5

NameTexts == {<<"P", "u", "m", "p", "-", "1">>, <<>>, <<" ", " ">>}
TypeTexts == {<<"P", "u", "m", "p">>, <<" ">>}
FlowrateTexts == {<<"1", "2", "0", " ", "L", "/", "m", "i", "n">>, <<"N", "/", "A">>, <<"-", "1">>, <<"1", "5", "0", "0", "0">>, <<"1", "0", "0", "0", "0">>, <<"0">>, <<"a", "b", "c">>}
PressureTexts == {<<"4", "5", " ", "p", "s", "i">>, <<>>, <<"-", "5">>, <<"1", "0", "0", "1">>, <<"1", "0", "0", "0">>}
TemperatureTexts == {<<"8", "0", "C">>, <<"A", "m", "b", "i", "e", "n", "t">>, <<"-", "2", "7", "4">>, <<"5", "0", "0", "1">>, <<"5", "0", "0", "0">>, <<"-", "2", "7", "3", ".", "1", "5">>}

\* every row over the cell texts
AnyRows ==
    {<<n, t, f, p, c>> : n \in NameTexts, t \in TypeTexts, f \in FlowrateTexts,
                         p \in PressureTexts, c \in TemperatureTexts}

\* the scenario rows, and the reference row with one cell changed
PlainRows ==
    {PUMP_1, PUMP_2, PUMP_3,
     [PUMP_1 EXCEPT ![1] = <<" ", " ">>],
     [PUMP_1 EXCEPT ![3] = <<"-", "1">>],
     [PUMP_1 EXCEPT ![3] = <<"1", "5", "0", "0", "0">>],
     [PUMP_1 EXCEPT ![4] = <<"1", "0", "0", "1">>],
     [PUMP_1 EXCEPT ![5] = <<"A", "m", "b", "i", "e", "n", "t">>]}

RECURSIVE RowSeqs(_, _)
RowSeqs(rows, len) ==
    IF len = 0 THEN {<<>>}
    ELSE {Append(s, r) : s \in RowSeqs(rows, len - 1), r \in rows}

\* the tables: one row of any cells, or two to MaxRows plain rows
Tables ==
    {<<r>> : r \in AnyRows}
        \cup UNION {RowSeqs(PlainRows, len) : len \in 2..MaxRows}

\* the headers: the required columns with some left out, reordered, renamed or extended
Headers ==
    {SelectSeq(required_columns, LAMBDA col : required_index(col) \in S) :
         S \in SUBSET (1..5) \ {{}}}
        \cup { <<TEMPERATURE, PRESSURE, FLOWRATE, TYPE, EQUIPMENT_NAME>>,
               required_columns \o <<NOTES>>,
               <<EQUIPMENT_NAME, TYPE, FLOWRATE_LOWER, PRESSURE, TEMPERATURE>>,
               <<NOTES>> }

FixedRequests ==
    {NoRequest}
        \cup {FileRequest(name, 2048, Csv(required_columns, <<PUMP_1>>)) :
                 name \in {<<"d", "a", "t", "a", ".", "t", "x", "t">>, <<"d", "a", "t", "a", ".", "C", "S", "V">>, <<"c", "s", "v">>}}
        \cup {FileRequest(<<"d", "a", "t", "a", ".", "c", "s", "v">>, size, Csv(required_columns, <<PUMP_1>>)) :
                 size \in {MAX_FILE_SIZE, MAX_FILE_SIZE + 1}}
        \cup {FileRequest(<<"d", "a", "t", "a", ".", "c", "s", "v">>, 2048, [k |-> kind]) :
                 kind \in {"UnicodeDecodeError", "EmptyDataError", "ParserError"}}
        \cup {CsvRequest(header, rows) :
                 header \in Headers, rows \in {<<>>, <<PUMP_1, PUMP_2>>}}
        \cup {CsvRequest(required_columns, rows) : rows \in Tables}

(***************************************************************************)
(* The upload endpoint, one request at a time                              *)
(***************************************************************************)
InitWeb ==
    /\ backend \in Engines
    /\ database = EmptyDb
    /\ last_request = NoRequest
    /\ last_response = NoResponse
    /\ uploaded = <<>>
    /\ failed = 0
    /\ threads = <<>>
    /\ accounts = NoAccounts

Pending == [k |-> "pending"]
InitFn == arg = Pending /\ ret = Pending /\ again = Pending

\* POST /datasets/upload/
Upload(req) ==
    LET out == upload(req, database, backend)
    IN  /\ database' = out.db
        /\ last_request' = req
        /\ last_response' = out.response
        /\ uploaded' = IF out.response.status = 201
                       THEN Append(uploaded, out.response.data.dataset.id)
                       ELSE uploaded
        /\ failed' = IF out.response.status = 201 THEN failed ELSE failed + 1
        /\ UNCHANGED <<accounts, backend, threads, fnVars>>

\* any request, sent to the empty store or to the store that MaxSeeds uploads of the
\* reference file have filled
InitFixed == InitWeb /\ InitFn

NextFixed ==
    \E req \in FixedRequests :
        /\ last_request \in {NoRequest, ReferenceRequest}
        /\ failed = 0
        /\ req = ReferenceRequest => Len(uploaded) < MaxSeeds
        /\ req # ReferenceRequest => Len(uploaded) \in {0, MaxSeeds}
        /\ Upload(req)

SpecFixed == InitFixed /\ [][NextFixed]_vars

(***************************************************************************)
(* Uploads one after the other, from the empty store                       *)
(***************************************************************************)
MaxUploads == 7

\* the reference file, the scenario with a missing flowrate, and a file whose
\* flowrate column has no reading at all
RetainRequests ==
    {ReferenceRequest,
     CsvRequest(required_columns, <<PUMP_1, PUMP_2>>),
     CsvRequest(required_columns, <<[PUMP_1 EXCEPT ![3] = <<"N", "/", "A">>]>>)}

InitRetain == InitWeb /\ InitFn

NextRetain ==
    \E req \in RetainRequests :
        /\ Len(uploaded) + failed < MaxUploads
        /\ Upload(req)

SpecRetain == InitRetain /\ [][NextRetain]_vars

(***************************************************************************)
(* Uploads in flight together.  Each worker runs upload on an accepted     *)
(* file; the ORM runs in autocommit, so every create, the evaluation of    *)
(* the queryset Dataset.objects.all()[5:] and every delete is a datastore  *)
(* operation of its own, and the operations of the workers interleave.     *)
(***************************************************************************)
NumProcs == 2
Procs == 1..NumProcs

\* the store after k uploads of the reference file, one after the other
RECURSIVE Seeded(_, _)
Seeded(engine, k) ==
    IF k = 0 THEN EmptyDb ELSE upload(ReferenceRequest, Seeded(engine, k - 1), engine).db

\* every worker uploads the reference file
ConcurrentRequests == {ReferenceRequest}

\* a worker before its first datastore operation
Started(request) ==
    [pc |-> "create_dataset", request |-> request, checked |-> upload_checks(request),
     dataset_id |-> 0, row |-> 1, old |-> <<>>]

InitConcurrent ==
    /\ InitFn
    /\ backend = "sqlite3"
    /\ database \in {Seeded(backend, k) : k \in 0..MaxSeeds}
    /\ last_request = NoRequest
    /\ last_response = NoResponse
    /\ uploaded = <<>>
    /\ failed = 0
    /\ threads \in [Procs -> {Started(request) : request \in ConcurrentRequests}]
    /\ accounts = NoAccounts

\* dataset = Dataset.objects.create(...)
CreateDataset(p) ==
    LET t == threads[p]
        stats == frame_stats(t.checked.df)
    IN  /\ t.pc = "create_dataset"
        /\ database' = Dataset_objects_create(database, t.request.name, Len(t.checked.df.rows),
                                              stats.flowrate.mean, stats.pressure.mean,
                                              stats.temperature.mean)
        /\ threads' = [threads EXCEPT ![p].pc = "create_equipment",
                                      ![p].dataset_id = database.next_id]
        /\ UNCHANGED <<accounts, backend, last_request, last_response, uploaded, failed, fnVars>>

\* Equipment.objects.create(...) for the next row of the frame
CreateEquipment(p) ==
    LET t == threads[p]
    IN  /\ t.pc = "create_equipment"
        /\ database' = Equipment_objects_create(
                           database, equipment_of(t.checked.df, t.checked.df.rows[t.row],
                                                  t.dataset_id))
        /\ threads' = [threads EXCEPT ![p].row = t.row + 1,
                                      ![p].pc = IF t.row = Len(t.checked.df.rows)
                                                THEN "read_old" ELSE "create_equipment"]
        /\ UNCHANGED <<accounts, backend, last_request, last_response, uploaded, failed, fnVars>>

\* for old_dataset in old_datasets: the queryset is evaluated once, when the loop starts
ReadOld(p) ==
    /\ threads[p].pc = "read_old"
    /\ threads' = [threads EXCEPT ![p].old = old_datasets(database), ![p].pc = "delete"]
    /\ UNCHANGED <<accounts, backend, database, last_request, last_response, uploaded, failed, fnVars>>

\* old_dataset.delete(); the delete of a row that is already gone deletes nothing
DeleteOld(p) ==
    LET t == threads[p]
    IN  /\ t.pc = "delete"
        /\ t.old # <<>>
        /\ database' = Dataset_delete(database, Head(t.old))
        /\ threads' = [threads EXCEPT ![p].old = Tail(t.old)]
        /\ UNCHANGED <<accounts, backend, last_request, last_response, uploaded, failed, fnVars>>

\* the loop is over: serialize the dataset and answer 201
Respond(p) ==
    LET t == threads[p]
        dataset == [id |-> t.dataset_id, name |-> t.request.name,
                    total_count |-> Len(t.checked.df.rows),
                    avg_flowrate |-> frame_stats(t.checked.df).flowrate.mean,
                    avg_pressure |-> frame_stats(t.checked.df).pressure.mean,
                    avg_temperature |-> frame_stats(t.checked.df).temperature.mean]
    IN  /\ t.pc = "delete"
        /\ t.old = <<>>
        /\ threads' = [threads EXCEPT ![p].pc = "done"]
        /\ last_request' = t.request
        /\ last_response' = success_response(database, dataset, frame_stats(t.checked.df),
                                             t.checked.validation_warnings,
                                             t.checked.response.extract_calls)
        /\ uploaded' = Append(uploaded, t.dataset_id)
        /\ UNCHANGED <<accounts, backend, database, failed, fnVars>>

NextConcurrent ==
    \E p \in Procs :
        \/ CreateDataset(p)
        \/ CreateEquipment(p)
        \/ ReadOld(p)
        \/ DeleteOld(p)
        \/ Respond(p)

SpecConcurrent == InitConcurrent /\ [][NextConcurrent]_vars

(***************************************************************************)
(* process_dynamic_csv on its own: a parsed file is handed to it, with     *)
(* every sample that detect_column_types can draw.                         *)
(***************************************************************************)
DynRows == 3

HUMIDITY == <<"H", "u", "m", "i", "d", "i", "t", "y">>
SITE == <<"S", "i", "t", "e">>

\* what a cell of the measured column may hold
DynTexts ==
    {<<"8", "0", "C">>, <<"9", "0">>, <<"A", "m", "b", "i", "e", "n", "t">>, <<" ", "n", "a", " ">>, <<"N", "/", "A">>, <<"a", "b", "c">>}

\* the columns of one to DynRows cells, and one of six cells from which a sample
\* of five leaves one out
DynColumns ==
    UNION {[1..len -> DynTexts] : len \in 1..DynRows}
        \cup {<<<<"8", "0", "C">>, <<"9", "0">>, <<"7", "0">>, <<"A", "m", "b", "i", "e", "n", "t">>, <<"a", "b", "c">>, <<"n", "a">>>>}

CODE == <<"C", "o", "d", "e">>
UNIT_ID == <<"U", "N", "I", "T", " ", "I", "D">>
SERIAL_NO == <<"S", "e", "r", "i", "a", "l", " ", "N", "o">>
SENSOR_ID == <<"S", "e", "n", "s", "o", "r", "I", "D">>
ZONE == <<"Z", "o", "n", "e">>
Reading(k) == <<"R", "e", "a", "d", "i", "n", "g">> \o nat_digits(k)

\* the cells of a second measured column, row after row
PressureCells == <<<<"4", "5", " ", "p", "s", "i">>, <<"5", "0">>, <<"a", "b", "c">>, <<>>, <<"-", "5", ".", "5", " ", "b", "a", "r">>, <<"n", "o", "n", "e">>>>

\* files whose columns are named and filled to tell the identifier rules apart: a
\* keyword column without any value, a first column without any value, the
\* specification's scenario, keyword columns after a plain one, a keyword in capitals
DynTables ==
    {[k |-> "csv", header |-> <<CODE, EQUIPMENT_NAME, TEMPERATURE>>,
      lines |-> <<<<<<>>, <<"P", "u", "m", "p", "-", "1">>, <<"8", "0", "C">>>>, <<<<>>, <<"P", "u", "m", "p", "-", "2">>, <<"9", "0">>>>>>],
     [k |-> "csv", header |-> <<NOTES, TEMPERATURE>>,
      lines |-> <<<<<<>>, <<"8", "0", "C">>>>, <<<<"N", "/", "A">>, <<"9", "0">>>>>>],
     [k |-> "csv", header |-> <<SENSOR_ID, ZONE, Reading(1), Reading(2)>>,
      lines |-> <<<<<<"S", "1">>, <<"n", "o", "r", "t", "h">>, <<"1", ".", "5">>, <<"1", "0">>>>, <<<<"S", "2">>, <<"s", "o", "u", "t", "h">>, <<"2", ".", "5">>, <<"2", "0">>>>>>],
     [k |-> "csv", header |-> <<ZONE, SERIAL_NO, CODE>>,
      lines |-> <<<<<<"n", "o", "r", "t", "h">>, <<"X", "7">>, <<"r", "e", "d">>>>, <<<<"s", "o", "u", "t", "h">>, <<"X", "8">>, <<"b", "l", "u", "e">>>>>>],
     [k |-> "csv", header |-> <<PRESSURE, UNIT_ID>>,
      lines |-> <<<<<<"4", "5", " ", "p", "s", "i">>, <<"7">>>>>>]}

\* the files: the column under a name that holds no id keyword, alone, after a
\* name column or before a second measured column, and under a name that holds a
\* keyword; and the files of DynTables
DynFiles ==
    DynTables
    \cup {[k |-> "csv", header |-> <<SITE, TEMPERATURE, PRESSURE>>,
           lines |-> [r \in 1..Len(col) |->
                         <<<<"n", "o", "r", "t", "h">>, col[r], PressureCells[((r - 1) % 6) + 1]>>]] :
              col \in DynColumns}
    \cup
    {[k |-> "csv", header |-> <<TEMPERATURE>>,
      lines |-> [r \in 1..Len(col) |-> <<col[r]>>]] : col \in DynColumns}
    \cup {[k |-> "csv", header |-> <<EQUIPMENT_NAME, TEMPERATURE>>,
           lines |-> [r \in 1..Len(col) |-> <<PUMP_1[1], col[r]>>]] : col \in DynColumns}
    \cup {[k |-> "csv", header |-> <<SITE, HUMIDITY>>,
           lines |-> [r \in 1..Len(col) |-> <<<<"n", "o", "r", "t", "h">>, col[r]>>]] : col \in DynColumns}

InitClean == InitWeb /\ backend = "sqlite3" /\ arg \in DynFiles /\ ret = Pending /\ again = Pending

Clean ==
    /\ ret = Pending
    /\ \E sample \in Samples(read_csv(arg)) :
           ret' = process_dynamic_csv(read_csv(arg), sample)
    /\ UNCHANGED <<arg, again, webVars>>

\* the frame that the first call returned is handed to process_dynamic_csv again
Reclean ==
    /\ ret # Pending
    /\ again = Pending
    /\ \E sample \in Samples(ret.df) :
           again' = process_dynamic_csv(ret.df, sample)
    /\ UNCHANGED <<arg, ret, webVars>>

NextClean == Clean \/ Reclean

SpecClean == InitClean /\ [][NextClean]_vars

(***************************************************************************)
(* The dynamic upload endpoint: one request, sent to the empty store.      *)
(***************************************************************************)
DATA_CSV == <<"d", "a", "t", "a", ".", "c", "s", "v">>

\* no file, a wrong name, a file that is too large, a file that cannot be read, a
\* header without rows, and every file of DynFiles
DynamicRequests ==
    {NoRequest,
     FileRequest(<<"d", "a", "t", "a", ".", "t", "x", "t">>, 2048, Csv(required_columns, <<PUMP_1>>)),
     FileRequest(DATA_CSV, MAX_FILE_SIZE + 1, Csv(required_columns, <<PUMP_1>>)),
     FileRequest(DATA_CSV, 2048, Csv(required_columns, <<>>))}
        \cup {FileRequest(DATA_CSV, 2048, [k |-> kind]) :
                 kind \in {"UnicodeDecodeError", "EmptyDataError", "ParserError"}}
        \cup {FileRequest(DATA_CSV, 2048, file) : file \in DynFiles}

\* POST /datasets/upload_dynamic/
UploadDynamic(req) ==
    \E sample \in request_samples(dynamic_checks(req)) :
        LET out == upload_dynamic(req, database, sample)
        IN  /\ database' = out.db
            /\ last_request' = req
            /\ last_response' = out.response
            /\ uploaded' = IF out.response.status = 201
                           THEN Append(uploaded, out.response.data.dataset_id)
                           ELSE uploaded
            /\ failed' = IF out.response.status = 201 THEN failed ELSE failed + 1
            /\ UNCHANGED <<accounts, backend, threads, fnVars>>

InitDynamic == InitWeb /\ InitFn /\ backend = "sqlite3"

NextDynamic ==
    \E req \in DynamicRequests :
        /\ last_request = NoRequest
        /\ failed = 0
        /\ uploaded = <<>>
        /\ UploadDynamic(req)

SpecDynamic == InitDynamic /\ [][NextDynamic]_vars

(***************************************************************************)
(* The statistics and the charts of a processed file, computed as          *)
(* upload_dynamic computes them from the result of process_dynamic_csv.    *)
(***************************************************************************)
MaxReadings == 7
PlanRows == 2

\* the cell of a column in row r: an id, a place, and a reading that is the same in
\* every row for an odd k and grows with the row for an even k
plan_cell(col, r) ==
    IF col = SENSOR_ID THEN <<"S">> \o nat_digits(r)
    ELSE IF col = ZONE THEN (IF r % 2 = 1 THEN <<"n", "o", "r", "t", "h">> ELSE <<"s", "o", "u", "t", "h">>)
    ELSE IF col = SITE THEN <<"p", "l", "a", "n", "t">>
    ELSE LET k == CHOOSE j \in 1..(MaxReadings + 1) : col = Reading(j)
         IN  IF k % 2 = 1 THEN nat_digits(10 * k) \o <<" ", "p", "s", "i">>
             ELSE nat_digits(10 * k + r)

PlanFile(header, rows) ==
    [k |-> "csv", header |-> header,
     lines |-> [r \in 1..rows |-> [c \in 1..Len(header) |-> plan_cell(header[c], r)]]]

\* the headers: with or without SensorID, no, one or two text columns, up to
\* MaxReadings reading columns, the text columns before or after the readings
PlanHeaders ==
    {ids \o texts \o [k \in 1..n |-> Reading(k)] :
         ids \in {<<>>, <<SENSOR_ID>>}, texts \in {<<>>, <<ZONE>>, <<ZONE, SITE>>, <<SITE, ZONE>>},
         n \in 0..MaxReadings}
    \cup {ids \o [k \in 1..n |-> Reading(k)] \o texts :
         ids \in {<<>>, <<SENSOR_ID>>}, texts \in {<<>>, <<ZONE>>, <<ZONE, SITE>>, <<SITE, ZONE>>},
         n \in 0..MaxReadings}

PlanFiles == {PlanFile(header, rows) : header \in PlanHeaders \ {<<>>}, rows \in 1..PlanRows}

InitPlan == InitWeb /\ backend = "sqlite3" /\ arg \in PlanFiles /\ ret = Pending /\ again = Pending

\* views.py:309-322 with the test of metadata['is_valid'] left out
describe(processed) ==
    [column_types |-> processed.metadata.column_types,
     df |-> processed.df,
     statistics |-> calculate_dynamic_statistics(
                        processed.df, processed.metadata.column_types.numeric_columns),
     visualizations |-> create_visualizations_config(
                            processed.metadata.column_types, head(processed.df, 100))]

Describe ==
    /\ ret = Pending
    /\ \E sample \in Samples(read_csv(arg)) :
           ret' = describe(process_dynamic_csv(read_csv(arg), sample))
    /\ UNCHANGED <<arg, again, webVars>>

NextPlan == Describe

SpecPlan == InitPlan /\ [][NextPlan]_vars

(***************************************************************************)
(* Fixed-schema and dynamic uploads one after the other, from the empty    *)
(* store.                                                                  *)
(***************************************************************************)
\* the scenario file of the dynamic path
StoreDynamicRequests ==
    {FileRequest(DATA_CSV, 2048,
         [k |-> "csv", header |-> <<SENSOR_ID, ZONE, Reading(1), Reading(2)>>,
          lines |-> <<<<<<"S", "1">>, <<"n", "o", "r", "t", "h">>, <<"1", ".", "5">>, <<"1", "0">>>>, <<<<"S", "2">>, <<"s", "o", "u", "t", "h">>, <<"2", ".", "5">>, <<"2", "0">>>>>>])}

MaxMixed == 6

InitStore == InitWeb /\ InitFn

NextStore ==
    /\ Len(uploaded) + failed < MaxMixed
    /\ \/ \E req \in RetainRequests : Upload(req)
       \/ \E req \in StoreDynamicRequests : UploadDynamic(req)

SpecStore == InitStore /\ [][NextStore]_vars


(***************************************************************************)
(* The password reset by one-time password, one request at a time.  Ann    *)
(* and Bob are registered; the clock moves on to the last minute of a      *)
(* one-time password and to the minute it expires.                         *)
(***************************************************************************)
ANN == <<"a", "n", "n">>
BOB == <<"b", "o", "b">>
EMAIL_A == <<"a", "@", "x", ".", "i", "o">>
EMAIL_B == <<"b", "@", "x", ".", "i", "o">>
EMAIL_C == <<"c", "@", "x", ".", "i", "o">>
SHORT_PASSWORD == <<"h", "u", "n", "t", "e", "r", "2">>
PASSWORD_1 == <<"p", "a", "s", "s", "w", "o", "r", "d", "1">>
PASSWORD_2 == <<"p", "a", "s", "s", "w", "o", "r", "d", "2">>
OtpCodes == {<<"0", "0", "0", "0", "0", "0">>, <<"1", "1", "1", "1", "1", "1">>}

MaxOtps == 2
MaxTime == 5

Registered ==
    register([username |-> Str(BOB), email |-> Str(EMAIL_B), password |-> Str(PASSWORD_1)],
             register_user([username |-> Str(ANN), email |-> Str(EMAIL_A), password |-> Str(PASSWORD_1)],
                           NoAccounts).accounts).accounts

OtpEmails == {None, Str(EMAIL_A), Str(EMAIL_B), Str(EMAIL_C)}
OtpFields == {None} \cup {Str(code) : code \in OtpCodes}
NewPasswords == {None, Str(SHORT_PASSWORD), Str(PASSWORD_2)}

Answer(request, out) ==
    /\ accounts' = out.accounts
    /\ last_request' = request
    /\ last_response' = out.response
    /\ UNCHANGED <<backend, database, uploaded, failed, threads, fnVars>>

RequestPasswordReset(email, otp_code, mail_sent) ==
    /\ accounts.next_otp <= MaxOtps
    /\ Answer([op |-> "request_password_reset", email |-> email],
              request_password_reset([email |-> email], accounts, otp_code, mail_sent))

VerifyOtp(email, otp) ==
    Answer([op |-> "verify_otp", email |-> email, otp |-> otp],
           verify_otp([email |-> email, otp |-> otp], accounts))

ResetPassword(email, otp, new_password) ==
    Answer([op |-> "reset_password", email |-> email, otp |-> otp, new_password |-> new_password],
           reset_password([email |-> email, otp |-> otp, new_password |-> new_password], accounts))

Tick ==
    /\ \E i \in 1..Len(accounts.otps) :
           \E t \in {accounts.otps[i].expires_at - 1, accounts.otps[i].expires_at} :
               /\ accounts.now < t
               /\ t <= MaxTime
               /\ accounts' = [accounts EXCEPT !.now = t]
    /\ last_request' = [op |-> "tick"]
    /\ last_response' = NoResponse
    /\ UNCHANGED <<backend, database, uploaded, failed, threads, fnVars>>

InitOtp == InitFn /\ backend = "sqlite3" /\ database = EmptyDb /\ last_request = NoRequest
           /\ last_response = NoResponse /\ uploaded = <<>> /\ failed = 0 /\ threads = <<>>
           /\ accounts = Registered

NextOtp ==
    \/ \E email \in OtpEmails, otp_code \in OtpCodes, mail_sent \in BOOLEAN :
           RequestPasswordReset(email, otp_code, mail_sent)
    \/ \E email \in OtpEmails, otp \in OtpFields : VerifyOtp(email, otp)
    \/ \E email \in OtpEmails, otp \in OtpFields, new_password \in NewPasswords :
           ResetPassword(email, otp, new_password)
    \/ Tick

SpecOtp == InitOtp /\ [][NextOtp]_vars


(***************************************************************************)
(* Password reset requests in flight together.  Each worker runs           *)
(* request_password_reset, one call after the other; the ORM runs in       *)
(* autocommit, so the get of the user, the update of the unused rows and   *)
(* the create of the new row are datastore operations of their own, and    *)
(* the operations of the workers interleave.  reset_password runs between  *)
(* them.                                                                   *)
(***************************************************************************)
MaxIssued == 3

Idle == [pc |-> "idle", email |-> <<>>, user_id |-> 0, otp_code |-> <<>>]

InFlight == Cardinality({p \in Procs : threads[p].pc \in {"invalidate", "create"}})

RaceFrame == UNCHANGED <<backend, database, uploaded, failed, fnVars>>

\* user = User.objects.get(email=email); a request for no user is answered at once
GetUser(p, email, otp_code) ==
    LET found == User_filter_email(accounts, email)
    IN  /\ threads[p].pc = "idle"
        /\ accounts.next_otp + InFlight <= MaxIssued
        /\ IF Len(found) = 1
           THEN /\ threads' = [threads EXCEPT ![p] = [pc |-> "invalidate", email |-> email,
                                                      user_id |-> found[1].id,
                                                      otp_code |-> otp_code]]
                /\ UNCHANGED <<accounts, last_request, last_response>>
                /\ RaceFrame
           ELSE /\ Answer([op |-> "request_password_reset", email |-> Str(email)],
                          request_password_reset([email |-> Str(email)], accounts, otp_code, TRUE))
                /\ UNCHANGED threads

\* PasswordResetOTP.objects.filter(user=user, is_used=False).update(is_used=True)
InvalidateOtps(p) ==
    /\ threads[p].pc = "invalidate"
    /\ accounts' = PasswordResetOTP_invalidate(accounts, threads[p].user_id)
    /\ threads' = [threads EXCEPT ![p].pc = "create"]
    /\ UNCHANGED <<last_request, last_response>>
    /\ RaceFrame

\* otp = PasswordResetOTP.objects.create(user=user, otp=otp_code)
CreateOtp(p) ==
    /\ threads[p].pc = "create"
    /\ accounts' = PasswordResetOTP_create(accounts, threads[p].user_id, threads[p].otp_code)
    /\ threads' = [threads EXCEPT ![p].pc = "send"]
    /\ UNCHANGED <<last_request, last_response>>
    /\ RaceFrame

\* send_mail and the response
SendOtp(p, mail_sent) ==
    /\ threads[p].pc = "send"
    /\ threads' = [threads EXCEPT ![p] = Idle]
    /\ last_request' = [op |-> "request_password_reset", email |-> Str(threads[p].email)]
    /\ last_response' = request_password_reset_send(accounts, threads[p].email, mail_sent).response
    /\ UNCHANGED accounts
    /\ RaceFrame

ResetPasswordBetween(email, otp) ==
    /\ ResetPassword(Str(email), Str(otp), Str(PASSWORD_2))
    /\ UNCHANGED threads

InitOtpRace ==
    /\ InitFn /\ backend = "sqlite3" /\ database = EmptyDb /\ last_request = NoRequest
    /\ last_response = NoResponse /\ uploaded = <<>> /\ failed = 0
    /\ threads = [p \in Procs |-> Idle]
    /\ accounts = Registered

NextOtpRace ==
    \/ \E p \in Procs :
           \/ \E email \in {EMAIL_A, EMAIL_B, EMAIL_C}, otp_code \in OtpCodes : GetUser(p, email, otp_code)
           \/ InvalidateOtps(p)
           \/ CreateOtp(p)
           \/ \E mail_sent \in BOOLEAN : SendOtp(p, mail_sent)
    \/ \E email \in {EMAIL_A, EMAIL_B}, otp \in OtpCodes : ResetPasswordBetween(email, otp)

SpecOtpRace == InitOtpRace /\ [][NextOtpRace]_vars


(***************************************************************************)
(* The account endpoints, one request at a time, from no accounts.  An     *)
(* authenticated request carries the key of a token, or 0 for none.        *)
(***************************************************************************)
EMAIL_A_UPPER == <<"a", "@", "X", ".", "I", "O">>

MaxUsers == 2
MaxKeys == 3

Usernames == {None, Str(ANN), Str(BOB)}
Emails == {None, Str(EMAIL_A), Str(EMAIL_A_UPPER), Str(EMAIL_B)}
RegisterPasswords == {None, Str(SHORT_PASSWORD), Str(PASSWORD_1)}
CurrentPasswords == {None, Str(PASSWORD_1), Str(PASSWORD_2)}
Keys == 0..MaxKeys

RegisterUser(username, email, password) ==
    /\ accounts.next_user <= MaxUsers
    /\ accounts.next_key <= MaxKeys
    /\ Answer([op |-> "register_user", username |-> username, email |-> email, password |-> password],
              register_user([username |-> username, email |-> email, password |-> password], accounts))

Register(username, email, password) ==
    /\ accounts.next_user <= MaxUsers
    /\ Answer([op |-> "register", username |-> username, email |-> email, password |-> password],
              register([username |-> username, email |-> email, password |-> password], accounts))

LoginUser(username, password) ==
    /\ accounts.next_key <= MaxKeys
    /\ Answer([op |-> "login_user", username |-> username, password |-> password],
              login_user([username |-> username, password |-> password], accounts))

ChangePassword(token, current_password, new_password) ==
    /\ accounts.next_key <= MaxKeys
    /\ Answer([op |-> "change_password", token |-> token, current_password |-> current_password,
               new_password |-> new_password],
              change_password([token |-> token, current_password |-> current_password,
                               new_password |-> new_password], accounts))

UpdateProfile(token, email) ==
    Answer([op |-> "update_profile", token |-> token, email |-> email],
           update_profile([token |-> token, email |-> email], accounts))

DeleteAccount(token) ==
    Answer([op |-> "delete_account", token |-> token],
           delete_account([token |-> token], accounts))

InitAccounts == InitWeb /\ InitFn /\ backend = "sqlite3"

NextAccounts ==
    \/ \E username \in Usernames, email \in Emails, password \in {None, Str(PASSWORD_1)} :
           RegisterUser(username, email, password)
    \/ \E username \in Usernames, email \in Emails, password \in RegisterPasswords :
           Register(username, email, password)
    \/ \E username \in Usernames, password \in CurrentPasswords : LoginUser(username, password)
    \/ \E token \in Keys, current_password \in CurrentPasswords, new_password \in NewPasswords :
           ChangePassword(token, current_password, new_password)
    \/ \E token \in Keys, email \in Emails : UpdateProfile(token, email)
    \/ \E token \in Keys : DeleteAccount(token)

SpecAccounts == InitAccounts /\ [][NextAccounts]_vars


(***************************************************************************)
(* Account requests in flight together.  Each worker runs register_user,   *)
(* register, update_profile or delete_account, one call after the other;   *)
(* every exists(), create_user, get_or_create, save and delete is a        *)
(* datastore operation of its own, and the operations of the workers       *)
(* interleave.  request.user is the row loaded when the call begins.       *)
(***************************************************************************)
NoUser == [id |-> 0, username |-> <<>>, email |-> <<>>, password |-> make_password(<<>>)]
Resting == [pc |-> "idle", op |-> "none", username |-> <<>>, email |-> <<>>, user |-> NoUser]

Registering == Cardinality({p \in Procs : threads[p].op \in {"register_user", "register"}})

\* the call of worker p is answered
Finish(p, acc, status, data) ==
    /\ accounts' = acc
    /\ threads' = [threads EXCEPT ![p] = Resting]
    /\ last_request' = [op |-> threads[p].op, username |-> threads[p].username,
                        email |-> threads[p].email, user_id |-> threads[p].user.id]
    /\ last_response' = Response(status, data, 0)
    /\ RaceFrame

\* the call of worker p goes on to its next datastore operation
GoOn(p, acc, pc) ==
    /\ accounts' = acc
    /\ threads' = [threads EXCEPT ![p].pc = pc]
    /\ UNCHANGED <<last_request, last_response>>
    /\ RaceFrame

\* register_user or register with every field given
BeginRegister(p, op, username, email) ==
    /\ threads[p].pc = "idle"
    /\ accounts.next_user + Registering <= MaxUsers
    /\ accounts.next_key + Registering <= MaxKeys
    /\ threads' = [threads EXCEPT ![p] = [pc |-> "username", op |-> op, username |-> username,
                                          email |-> email, user |-> NoUser]]
    /\ UNCHANGED <<accounts, last_request, last_response>>
    /\ RaceFrame

\* update_profile or delete_account with the key of a token: TokenAuthentication loads the user
BeginAs(p, op, token, email) ==
    /\ threads[p].pc = "idle"
    /\ Len(request_user(accounts, token)) = 1
    /\ threads' = [threads EXCEPT ![p] = [pc |-> IF op = "update_profile" THEN "email"
                                                 ELSE "delete_tokens",
                                          op |-> op, username |-> <<>>, email |-> email,
                                          user |-> request_user(accounts, token)[1]]]
    /\ UNCHANGED <<accounts, last_request, last_response>>
    /\ RaceFrame

\* User.objects.filter(username=username).exists()
CheckUsername(p) ==
    /\ threads[p].pc = "username"
    /\ IF Len(User_filter_username(accounts, threads[p].username)) > 0
       THEN Finish(p, accounts, 400, [error |-> Msg("Username already exists")])
       ELSE GoOn(p, accounts, "email")

\* User.objects.filter(email=email).exists(), for update_profile with .exclude(id=user.id)
CheckEmail(p) ==
    LET t == threads[p]
    IN  /\ t.pc = "email"
        /\ IF t.op = "update_profile"
           THEN update_profile_as(t.user, [email |-> Str(t.email)], accounts).response.status = 400
           ELSE Len(User_filter_email(accounts, t.email)) > 0
        /\ Finish(p, accounts, 400,
                  [error |-> Msg(IF t.op = "update_profile"
                                 THEN "Email is already in use by another account"
                                 ELSE "Email already registered")])

EmailFree(p) ==
    LET t == threads[p]
    IN  /\ t.pc = "email"
        /\ IF t.op = "update_profile"
           THEN update_profile_as(t.user, [email |-> Str(t.email)], accounts).response.status = 200
           ELSE Len(User_filter_email(accounts, t.email)) = 0
        /\ GoOn(p, accounts, IF t.op = "update_profile" THEN "save" ELSE "create")

\* User.objects.create_user(...); the IntegrityError ends the call with 500
CreateUser(p) ==
    LET t == threads[p]
        created == create_user(accounts, t.username, t.email, PASSWORD_1)
    IN  /\ t.pc = "create"
        /\ IF ~created.ok
           THEN Finish(p, accounts, 500, [error |-> Msg("IntegrityError")])
           ELSE IF t.op = "register"
           THEN Finish(p, created.accounts, 201,
                       [message |-> Msg("Registration successful. Please login."),
                        username |-> t.username])
           ELSE /\ accounts' = created.accounts
                /\ threads' = [threads EXCEPT ![p].pc = "token",
                                              ![p].user = [NoUser EXCEPT !.id = created.id]]
                /\ UNCHANGED <<last_request, last_response>>
                /\ RaceFrame

\* token, _ = Token.objects.get_or_create(user=user)
CreateToken(p) ==
    LET out == register_user_created([accounts |-> accounts, id |-> threads[p].user.id])
    IN  /\ threads[p].pc = "token"
        /\ Finish(p, out.accounts, out.response.status, out.response.data)

\* user.email = email; user.save()
SaveUser(p) ==
    LET t == threads[p]
        saved == User_save(accounts, [t.user EXCEPT !.email = t.email])
    IN  /\ t.pc = "save"
        /\ IF saved.ok
           THEN Finish(p, saved.accounts, 200,
                       [message |-> Msg("Profile updated successfully"), email |-> t.email])
           ELSE Finish(p, accounts, 500, [error |-> Msg("An error occurred. Please try again.")])

\* Token.objects.filter(user=user).delete()
DeleteTokens(p) ==
    /\ threads[p].pc = "delete_tokens"
    /\ GoOn(p, Token_delete(accounts, threads[p].user.id), "delete_user")

\* user.delete()
DeleteUser(p) ==
    /\ threads[p].pc = "delete_user"
    /\ Finish(p, User_delete(accounts, threads[p].user.id), 200,
              [message |-> Msg("Account deleted successfully")])

InitAccountsRace ==
    /\ InitFn /\ backend = "sqlite3" /\ database = EmptyDb /\ last_request = NoRequest
    /\ last_response = NoResponse /\ uploaded = <<>> /\ failed = 0
    /\ threads = [p \in Procs |-> Resting]
    /\ accounts = NoAccounts

NextAccountsRace ==
    \E p \in Procs :
        \/ \E op \in {"register_user", "register"}, username \in {ANN, BOB},
              email \in {EMAIL_A, EMAIL_B} : BeginRegister(p, op, username, email)
        \/ \E op \in {"update_profile", "delete_account"}, token \in 1..MaxKeys,
              email \in {EMAIL_A, EMAIL_B} : BeginAs(p, op, token, email)
        \/ CheckUsername(p)
        \/ CheckEmail(p)
        \/ EmailFree(p)
        \/ CreateUser(p)
        \/ CreateToken(p)
        \/ SaveUser(p)
        \/ DeleteTokens(p)
        \/ DeleteUser(p)

SpecAccountsRace == InitAccountsRace /\ [][NextAccountsRace]_vars

(***************************************************************************)
(* The Value Normalizer on its own: every cell of NormCells is handed to   *)
(* both copies of extract_numeric_value.                                   *)
(***************************************************************************)
MaxLen == 3
Alphabet == {"-", ".", "1", "5", "L", " "}

RECURSIVE TextsUpTo(_)
TextsUpTo(len) ==
    IF len = 0 THEN {<<>>}
    ELSE LET shorter == TextsUpTo(len - 1)
         IN  shorter \cup {Append(t, c) : t \in {x \in shorter : Len(x) = len - 1},
                                          c \in Alphabet}

SampleTexts ==
    { <<"1", "2", "0", " ", "L", "/", "m", "i", "n">>, <<"4", "5", "C">>,
      <<"4", "5", " ", "p", "s", "i">>, <<"1", "5", "0", "0", "0">>,
      <<"-", "2", "7", "3", ".", "1", "5">>, <<"T", "-", "1", "0", "1">>,
      <<" ", "n", "/", "a", " ">>, <<"N", "/", "A">>, <<"n", "a">>, <<"N", "o", "n", "e">>,
      <<"\t", "N", "U", "L", "L">>, <<"A", "m", "b", "i", "e", "n", "t">>,
      <<"r", "o", "o", "m", " ", "t", "e", "m", "p">>,
      <<"R", "o", "o", "m", " ", " ", "T", "e", "m", "p">>,
      <<"A", "T", "M", "O", "S", "P", "H", "E", "R", "I", "C", " ">>,
      <<"n", "/", "a", " ", "5">>, <<"a", "b", "c">> }

NormCells ==
    {NaN, None}
        \cup {Float(91, 2), Float(-27315, 100), Float(0, 1)}
        \cup {Int64(120), Int64(-5), Int64(0), Int64(10000)}
        \cup {Str(t) : t \in TextsUpTo(MaxLen) \cup SampleTexts}

InitNorm == InitWeb /\ backend = "sqlite3" /\ arg \in NormCells /\ ret = Pending /\ again = Pending

Normalize ==
    /\ ret = Pending
    /\ arg \in NormCells
    /\ ret' = [views |-> extract_numeric_value(arg),
               dynamic |-> dyn_extract_numeric_value(arg)]
    /\ UNCHANGED <<arg, again, webVars>>

NextNorm == Normalize

SpecNorm == InitNorm /\ [][NextNorm]_vars

(***************************************************************************)
(* What normalize is required to return, stated without the scan.          *)
(***************************************************************************)
Sentinels ==
    { <<"n", "/", "a">>, <<"n", "a">>, <<"n", "o", "n", "e">>, <<"n", "u", "l", "l">>,
      <<>>, <<"a", "m", "b", "i", "e", "n", "t">>,
      <<"r", "o", "o", "m", " ", "t", "e", "m", "p">>,
      <<"a", "t", "m", "o", "s", "p", "h", "e", "r", "i", "c">> }

\* the text is a sentinel word, in any case, between whitespace
IsSentinelText(t) ==
    \E i \in 1..Len(t) + 1, j \in 0..Len(t) :
        /\ i <= j + 1
        /\ \A p \in 1..Len(t) : (p < i \/ p > j) => t[p] \in Whitespace
        /\ [p \in 1..(j - i + 1) |-> lower_char(t[i + p - 1])] \in Sentinels

\* optional '-', one or more digits, optional '.', zero or more digits
IsNumeral(t) ==
    \E sgn \in 0..1, nd \in 1..Len(t), dot \in 0..1 :
        /\ sgn + nd + dot <= Len(t)
        /\ sgn = 1 => t[1] = "-"
        /\ \A p \in (sgn + 1)..(sgn + nd) : IsDigit(t[p])
        /\ dot = 1 => t[sgn + nd + 1] = "."
        /\ \A p \in (sgn + nd + dot + 1)..Len(t) : IsDigit(t[p])

\* the sum, over the digit positions ps of t, of each digit weighted by its place
RECURSIVE PlaceSum(_, _, _)
PlaceSum(t, digs, ps) ==
    IF ps = {} THEN 0
    ELSE LET p == CHOOSE q \in ps : TRUE
         IN  DigitVal(t[p]) * Pow10(Cardinality({q \in digs : q > p}))
                 + PlaceSum(t, digs, ps \ {p})

\* the number a numeral spells
NumeralValue(t) ==
    LET digs == {p \in 1..Len(t) : IsDigit(t[p])}
        frac == {p \in digs : \E q \in 1..p : t[q] = "."}
        mag  == PlaceSum(t, digs, digs)
    IN  Float(IF t[1] = "-" THEN -mag ELSE mag, Pow10(Cardinality(frac)))

\* the leftmost substring that is a numeral, as long as it can be; <<>> if none
LeftmostNumeral(t) ==
    LET spans == {<<i, j>> \in (1..Len(t)) \X (1..Len(t)) :
                     i <= j /\ IsNumeral(SubSeq(t, i, j))}
    IN  IF spans = {} THEN <<>>
        ELSE LET best == CHOOSE x \in spans : \A y \in spans :
                             x[1] < y[1] \/ (x[1] = y[1] /\ x[2] >= y[2])
             IN  SubSeq(t, best[1], best[2])

NormalizeContract(cell) ==
    CASE cell.k \in {"nan", "none"} -> None
      [] cell.k = "float" -> cell
      [] cell.k = "int64" -> Float(cell.i, 1)
      [] cell.k = "str" ->
            IF IsSentinelText(cell.s) \/ LeftmostNumeral(cell.s) = <<>> THEN None
            ELSE NumeralValue(LeftmostNumeral(cell.s))

HasDigit(t) == \E p \in 1..Len(t) : IsDigit(t[p])

\* C10: normalize is total: a numeric cell comes back as a float, a missing or
\* sentinel cell as no value, any other text as the number spelled by its leftmost
\* numeral (optional '-', digits, optional '.', digits) and as no value when it holds
\* no digit; the copy in views and the copy in the dynamic handler agree on every cell.
C10_NormalizeTotal ==
    ret # Pending =>
        /\ ret.views = NormalizeContract(arg)
        /\ ret.dynamic = ret.views
        /\ ret.views.k \in {"none", "float"}
        /\ (arg.k = "str" /\ ~HasDigit(arg.s)) => ret.views = None

\* "120 L/min" has been normalized, to 120.0, by both copies
C10_Witness ==
    /\ arg = Str(<<"1", "2", "0", " ", "L", "/", "m", "i", "n">>)
    /\ ret # Pending
    /\ ret.views = Float(120, 1)
    /\ ret.dynamic = Float(120, 1)

(***************************************************************************)
(* The fixed-schema upload, read off the request alone: what the file      *)
(* holds, stated on the texts of the CSV.                                  *)
(***************************************************************************)
CellTexts ==
    NameTexts \cup TypeTexts \cup FlowrateTexts \cup PressureTexts \cup TemperatureTexts
        \cup {PUMP_2[i] : i \in 1..5} \cup {PUMP_3[i] : i \in 1..5}

\* the number a CSV text stands for, None when it stands for none
TextValue == [text \in CellTexts |->
                 IF text \in NaValues THEN None ELSE NormalizeContract(Str(text))]

\* the text is blank: not a missing value, and nothing but whitespace
TextBlank == [text \in CellTexts |->
                 text # <<>> /\ \A p \in 1..Len(text) : text[p] \in Whitespace]

IsCsvFile(req) ==
    /\ req.has_file
    /\ Len(req.name) >= 4
    /\ SubSeq(req.name, Len(req.name) - 3, Len(req.name)) = <<".", "c", "s", "v">>
    /\ req.size <= MAX_FILE_SIZE
    /\ req.content.k = "csv"

HeaderOf(req) == req.content.header
LinesOf(req) == req.content.lines
Absent(req) == {col \in {required_columns[i] : i \in 1..5} :
                   \A c \in 1..Len(HeaderOf(req)) : HeaderOf(req)[c] # col}
NonEmptyTable(req) == IsCsvFile(req) /\ HeaderOf(req) # <<>> /\ LinesOf(req) # <<>>
HasRequired(req) == NonEmptyTable(req) /\ Absent(req) = {}

\* the text of column col in line r
TextAt(req, r, col) ==
    LinesOf(req)[r][CHOOSE c \in 1..Len(HeaderOf(req)) : HeaderOf(req)[c] = col]
ValueAt(req, r, col) == TextValue[TextAt(req, r, col)]

\* the lines that hold a reading: the rows cleaning retains, in order
Retained(req) ==
    SelectSeq([r \in 1..Len(LinesOf(req)) |-> r],
              LAMBDA r : \E i \in 1..3 : ValueAt(req, r, numeric_columns[i]) # None)

ReachesValidation(req) == HasRequired(req) /\ Retained(req) # <<>>

\* a column on the retained rows: the number of each row, None where it has none
Column(req, col) ==
    [i \in 1..Len(Retained(req)) |-> ValueAt(req, Retained(req)[i], col)]
TextColumn(req, col) ==
    [i \in 1..Len(Retained(req)) |-> TextAt(req, Retained(req)[i], col)]

RECURSIVE Total(_)
Total(values) == IF values = <<>> THEN Float(0, 1) ELSE FAdd(Head(values), Total(Tail(values)))

\* the mean of the readings a column holds, NaN when it holds none
MeanOf(readings) ==
    IF readings = <<>> THEN NaN ELSE FDivInt(Total(readings), Len(readings))
MeanReading(column) == MeanOf(SelectSeq(column, IsFloat))
MissingIn(column) == Len(column) - Len(SelectSeq(column, IsFloat))

\* the column after cleaning and imputation: a missing reading is the column mean
Imputed(column, mean) ==
    [i \in 1..Len(column) |-> IF column[i] # None THEN column[i] ELSE mean]
Cleaned(req, col) == Imputed(Column(req, col), MeanReading(Column(req, col)))

Below(column, bound) ==
    \E i \in 1..Len(column) : IsFloat(column[i]) /\ FLt(column[i], bound)
Above(column, bound) ==
    \E i \in 1..Len(column) : IsFloat(column[i]) /\ FLt(bound, column[i])
Blank(texts) == \E i \in 1..Len(texts) : TextBlank[texts[i]]

\* the eight checks in the order of the report: their messages, and which are violated
CheckMessages ==
    <<"Flowrate cannot be negative",
      "Flowrate exceeds maximum allowed value (10000)",
      "Pressure cannot be negative",
      "Pressure exceeds maximum allowed value (1000)",
      "Temperature cannot be below absolute zero (-273.15°C)",
      "Temperature exceeds maximum allowed value (5000°C)",
      "Equipment Name cannot be empty",
      "Equipment Type cannot be empty">>

ChecksOn(flowrate, pressure, temperature, names, types) ==
    <<Below(flowrate, Float(0, 1)), Above(flowrate, Float(10000, 1)),
      Below(pressure, Float(0, 1)), Above(pressure, Float(1000, 1)),
      Below(temperature, Float(-27315, 100)), Above(temperature, Float(5000, 1)),
      Blank(names), Blank(types)>>

Checks(req) ==
    ChecksOn(Cleaned(req, FLOWRATE), Cleaned(req, PRESSURE), Cleaned(req, TEMPERATURE),
             TextColumn(req, EQUIPMENT_NAME), TextColumn(req, TYPE))

ViolatedIn(checks) == {i \in 1..8 : checks[i]}
Violated(req) == ViolatedIn(Checks(req))
BoundViolated(req) == Violated(req) \cap (1..6)

\* the report of the violated checks, in the order of the checks
Reported(req) == SelectSeq(CheckMessages, LAMBDA m : m \in {CheckMessages[i] : i \in Violated(req)})

\* the warnings of cleaning: one for each numeric column with a missing reading
RECURSIVE Warned(_, _)
Warned(req, i) ==
    IF i > 3 THEN <<>>
    ELSE (IF MissingIn(Column(req, numeric_columns[i])) > 0
          THEN <<MissingWarning(numeric_columns[i], MissingIn(Column(req, numeric_columns[i])))>>
          ELSE <<>>) \o Warned(req, i + 1)

StructuralErrors ==
    {"No file provided", "File must be CSV format", "File size must be less than 10MB",
     "CSV file is empty", "CSV file is empty or corrupted",
     "CSV is missing required columns: {}",
     "CSV file contains no valid numeric data after parsing"}

\* the response is the 400 of a structural or of a validation error
EndsInError(response) ==
    /\ response.status = 400
    /\ response.data.error.fmt \in StructuralErrors \cup {"Data validation failed"}

(* C3: an upload that ends in a structural error or in a validation error is      *)
(* answered 400 without statistics and leaves the stored datasets and equipment   *)
(* rows exactly as they were.                                                     *)
C3_ErrorPersistsNothing ==
    [][ (last_request' # last_request /\ EndsInError(last_response'))
            => /\ database' = database
               /\ "statistics" \notin DOMAIN last_response'.data
               /\ "dataset" \notin DOMAIN last_response'.data ]_vars

C3_Witness ==
    /\ last_response.status = 400
    /\ last_response.data.error.fmt = "Data validation failed"
    /\ Len(database.datasets) = KEEP
    /\ Len(database.equipments) = KEEP

(* C5: a non-empty table without some required column is answered 400 with the    *)
(* one message that lists the missing names joined by ", " in the order           *)
(* Equipment Name, Type, Flowrate, Pressure, Temperature, and no cell has been    *)
(* normalized by then.                                                            *)
C5_MissingColumnsListed ==
    (NonEmptyTable(last_request) /\ Absent(last_request) # {})
        => /\ last_response.status = 400
           /\ last_response.data.error =
                  [fmt |-> "CSV is missing required columns: {}",
                   names |-> join(<<",", " ">>,
                                  SelectSeq(required_columns,
                                            LAMBDA col : col \in Absent(last_request)))]
           /\ last_response.extract_calls = 0

C5_Witness ==
    /\ NonEmptyTable(last_request)
    /\ HeaderOf(last_request) = <<EQUIPMENT_NAME, TYPE, PRESSURE>>
    /\ last_response.status = 400
    /\ last_response.data.error.fmt = "CSV is missing required columns: {}"
    /\ last_response.data.error.names = <<"F", "l", "o", "w", "r", "a", "t", "e", ",", " ", "T", "e", "m", "p", "e", "r", "a", "t", "u", "r", "e">>

(* C6: validation runs every one of its eight checks and reports all the          *)
(* violations together, in the fixed order of the checks, in one 400 response     *)
(* "Data validation failed" that carries the warnings cleaning has produced       *)
(* (null when there are none).                                                    *)
C6_AllViolationsReported ==
    (ReachesValidation(last_request) /\ Violated(last_request) # {})
        => /\ last_response.status = 400
           /\ last_response.data.error = Msg("Data validation failed")
           /\ last_response.data.validation_errors = Reported(last_request)
           /\ last_response.data.validation_warnings =
                  (IF Warned(last_request, 1) = <<>> THEN None
                   ELSE [k |-> "list", items |-> Warned(last_request, 1)])

C6_Witness ==
    /\ ReachesValidation(last_request)
    /\ last_response.status = 400
    /\ last_response.data.error = Msg("Data validation failed")
    /\ last_response.data.validation_errors =
           <<"Flowrate cannot be negative",
             "Pressure exceeds maximum allowed value (1000)",
             "Equipment Name cannot be empty">>
    /\ last_response.data.validation_warnings =
           [k |-> "list", items |-> <<MissingWarning(TEMPERATURE, 1)>>]

\* the bound messages of a response
BoundMessages == {CheckMessages[i] : i \in 1..6}
BoundErrors(response) ==
    IF response.status = 400 /\ "validation_errors" \in DOMAIN response.data
    THEN {response.data.validation_errors[i] :
              i \in 1..Len(response.data.validation_errors)} \cap BoundMessages
    ELSE {}

\* some retained row reads the flowrate 15000
Reads15000(req) ==
    \E i \in 1..Len(Retained(req)) :
        ValueAt(req, Retained(req)[i], FLOWRATE) = Float(15000, 1)

(* C7: a bound error is raised exactly when, after cleaning and imputation, some  *)
(* flowrate is < 0 or > 10000, some pressure is < 0 or > 1000, or some            *)
(* temperature is < -273.15 or > 5000, each bound with its own message; the       *)
(* boundary values are accepted; a flowrate of 15000 is answered 400 with         *)
(* "Flowrate exceeds maximum allowed value (10000)" and nothing is stored.        *)
C7_BoundsAreStrict ==
    [][ (last_request' # last_request /\ ReachesValidation(last_request'))
            => /\ BoundErrors(last_response') =
                      {CheckMessages[i] : i \in BoundViolated(last_request')}
               /\ Reads15000(last_request')
                      => /\ last_response'.status = 400
                         /\ "Flowrate exceeds maximum allowed value (10000)"
                                \in BoundErrors(last_response')
                         /\ database' = database ]_vars

C7_Witness ==
    /\ ReachesValidation(last_request)
    /\ Len(LinesOf(last_request)) = 1
    /\ ValueAt(last_request, 1, FLOWRATE) = Float(10000, 1)
    /\ ValueAt(last_request, 1, PRESSURE) = Float(1000, 1)
    /\ ValueAt(last_request, 1, TEMPERATURE) = Float(-27315, 100)
    /\ last_response.status = 201

C7_WitnessRejected ==
    /\ ReachesValidation(last_request)
    /\ Reads15000(last_request)
    /\ last_response.status = 400
    /\ BoundErrors(last_response) = {"Flowrate exceeds maximum allowed value (10000)"}
    /\ Len(database.datasets) = KEEP

\* the warnings a response reports
ResponseWarnings(response) ==
    IF "warnings" \in DOMAIN response.data THEN response.data.warnings
    ELSE IF "validation_warnings" \in DOMAIN response.data
              /\ response.data.validation_warnings # None
    THEN response.data.validation_warnings.items
    ELSE <<>>

ReportsWarnings(response) ==
    response.status = 201 \/ "validation_errors" \in DOMAIN response.data

\* the stored rows of the answered dataset hold, column by column, the cleaned columns,
\* and the dataset holds their means
StoredAsCleaned(req, response) ==
    /\ Len(response.data.dataset.equipments) = Len(Retained(req))
    /\ [i \in 1..Len(Retained(req)) |-> response.data.dataset.equipments[i].flowrate]
           = Cleaned(req, FLOWRATE)
    /\ [i \in 1..Len(Retained(req)) |-> response.data.dataset.equipments[i].pressure]
           = Cleaned(req, PRESSURE)
    /\ [i \in 1..Len(Retained(req)) |-> response.data.dataset.equipments[i].temperature]
           = Cleaned(req, TEMPERATURE)
    /\ response.data.dataset.avg_flowrate = MeanReading(Column(req, FLOWRATE))
    /\ response.data.dataset.avg_pressure = MeanReading(Column(req, PRESSURE))
    /\ response.data.dataset.avg_temperature = MeanReading(Column(req, TEMPERATURE))

SomeMissing(req) ==
    \E i \in 1..3 : MissingIn(Column(req, numeric_columns[i])) > 0

\* the warning "{column}: Missing values filled with mean ({mean:.2f})" of each numeric
\* column with a missing reading
MeanText(mean) == IF IsFloat(mean) THEN format_2f(mean) ELSE <<"n", "a", "n">>
RECURSIVE FilledWithMeanWarned(_, _)
FilledWithMeanWarned(req, i) ==
    IF i > 3 THEN <<>>
    ELSE (IF MissingIn(Column(req, numeric_columns[i])) > 0
          THEN <<[fmt |-> "{col}: Missing values filled with mean ({mean_val:.2f})",
                  col |-> numeric_columns[i],
                  mean_val |-> MeanText(MeanReading(Column(req, numeric_columns[i])))]>>
          ELSE <<>>) \o FilledWithMeanWarned(req, i + 1)

StoredOnce(req, response, db) ==
    /\ Cardinality({i \in 1..Len(db.datasets) :
                       /\ db.datasets[i].id = response.data.dataset.id
                       /\ db.datasets[i].total_count = Len(Retained(req))}) = 1
    /\ Cardinality({i \in 1..Len(db.equipments) :
                       db.equipments[i].dataset = response.data.dataset.id})
           = Len(Retained(req))

(* C4 as stated: a CSV that has the five required columns, keeps at least one     *)
(* row after cleaning and violates no bound or empty-name/type check is           *)
(* answered 201 with one Dataset stored and one Equipment row per retained row;   *)
(* the warnings of cleaning are returned and never block the upload.              *)
C4_WarningsNeverBlock ==
    (ReachesValidation(last_request) /\ Violated(last_request) = {})
        => /\ last_response.status = 201
           /\ StoredOnce(last_request, last_response, database)
           /\ ResponseWarnings(last_response) = Warned(last_request, 1)

\* the upload the claim promises to accept, answered 400 with its Dataset row stored
C4_Blocked ==
    /\ ReachesValidation(last_request) /\ Violated(last_request) = {}
    /\ SomeMissing(last_request)
    /\ last_response.status = 400
    /\ \E i \in 1..Len(database.datasets) :
           \A j \in 1..Len(database.equipments) :
               database.equipments[j].dataset # database.datasets[i].id

\* the ids of the stored datasets, oldest first
LiveIds == [i \in 1..Len(database.datasets) |-> database.datasets[i].id]

\* the last n elements of a sequence, all of them when it has fewer
LastOf(s, n) == IF Len(s) <= n THEN s ELSE SubSeq(s, Len(s) - n + 1, Len(s))

(* C1: from the empty store, after n successful uploads made one after the other  *)
(* exactly min(n, 5) datasets remain, and they are the min(n, 5) most recently    *)
(* uploaded ones, each with its equipment rows; after 6 uploads 5 remain and      *)
(* the first one is gone.                                                         *)
C1_LastFiveRetained ==
    failed = 0
        => /\ LiveIds = LastOf(uploaded, KEEP)
           /\ {database.equipments[j].dataset : j \in 1..Len(database.equipments)}
                  = {LiveIds[i] : i \in 1..Len(LiveIds)}

C1_Witness ==
    /\ failed = 0
    /\ Len(uploaded) = KEEP + 1
    /\ Len(database.datasets) = KEEP
    /\ \A i \in 1..Len(database.datasets) : database.datasets[i].id # uploaded[1]
    /\ \A j \in 1..Len(database.equipments) : database.equipments[j].dataset # uploaded[1]

(* C2: in every interleaving of the datastore operations of two or more uploads   *)
(* in flight together (create dataset, create equipment rows, read the datasets   *)
(* beyond the 5 newest, delete each of them), once every upload is past its       *)
(* eviction at most 5 datasets are stored.                                        *)
C2_AtMostFiveAfterEviction ==
    (\A p \in DOMAIN threads : threads[p].pc = "done")
        => Len(database.datasets) <= KEEP

\* both uploads are answered, and one of them read the old datasets while the other
\* was between its create and its own read: the store held more than 5 datasets
C2_Witness ==
    /\ threads # <<>>
    /\ \A p \in DOMAIN threads : threads[p].pc = "done"
    /\ Len(uploaded) = NumProcs
    /\ Len(database.datasets) = KEEP
    /\ uploaded[1] > uploaded[2]

\* the cells of a column of the file handed to process_dynamic_csv
FileColumn(file, col) ==
    [r \in 1..Len(file.lines) |->
        file.lines[r][CHOOSE c \in 1..Len(file.header) : file.header[c] = col]]

\* the cells of the column that are not missing, are no sentinel and hold no number
Unparseable(texts) ==
    {r \in 1..Len(texts) :
        texts[r] \notin NaValues /\ ~IsSentinelText(texts[r]) /\ ~HasDigit(texts[r])}

CouldNotParseOf(result, col) ==
    {w \in {result.metadata.validation_warnings[i] :
                i \in 1..Len(result.metadata.validation_warnings)} :
        w.fmt = "{col}: {failed_count} values could not be parsed" /\ w.col = col}

(* C9 as stated: a sentinel cell normalizes to "no value" and is never counted    *)
(* in a "{column}: {n} values could not be parsed" warning: for every numeric     *)
(* column the warning is emitted exactly when some non-missing, non-sentinel      *)
(* cell of it contains no number, and its n is the number of those cells.         *)
C9_SentinelsNotCounted ==
    ret # Pending
        => \A i \in 1..Len(ret.metadata.column_types.numeric_columns) :
               LET col == ret.metadata.column_types.numeric_columns[i]
                   n == Cardinality(Unparseable(FileColumn(arg, col)))
               IN  CouldNotParseOf(ret, col) =
                       (IF n > 0 THEN {CouldNotParse(col, n)} ELSE {})

\* a numeric column whose only cell without a number is the sentinel Ambient, and
\* the warning that one value could not be parsed
C9_SentinelCounted ==
    /\ ret # Pending
    /\ arg.header = <<TEMPERATURE>>
    /\ FileColumn(arg, TEMPERATURE) = <<<<"8", "0", "C">>, <<"9", "0">>, <<"A", "m", "b", "i", "e", "n", "t">>>>
    /\ ret.metadata.column_types.numeric_columns = <<TEMPERATURE>>
    /\ CouldNotParse(TEMPERATURE, 1) \in CouldNotParseOf(ret, TEMPERATURE)

(***************************************************************************)
(* The classification of the columns, read off the file.                   *)
(***************************************************************************)
SeqCount(s, x) == Cardinality({i \in 1..Len(s) : s[i] = x})

\* in how many of identifier, categorical and numeric a column name stands
ClassCount(column_types, col) ==
    (IF column_types.id_column = Str(col) THEN 1 ELSE 0)
        + SeqCount(column_types.category_columns, col)
        + SeqCount(column_types.numeric_columns, col)

(* C11 as stated: detect classifies every column name of the table exactly once:  *)
(* each column is in exactly one of identifier, categorical and numeric, exactly   *)
(* one column is the identifier, and the identifier is in neither list.            *)
C11_EachColumnOnce ==
    ret # Pending
        => LET column_types == ret.metadata.column_types
           IN  /\ \A c \in 1..Len(arg.header) : ClassCount(column_types, arg.header[c]) = 1
               /\ \E c \in 1..Len(arg.header) : column_types.id_column = Str(arg.header[c])
               /\ SeqCount(column_types.category_columns, column_types.id_column.s) = 0
               /\ SeqCount(column_types.numeric_columns, column_types.id_column.s) = 0

\* every cell of column c of the file is one that read_csv takes for missing
ColumnMissing(file, c) == \A r \in 1..Len(file.lines) : file.lines[r][c] \in NaValues

\* the name, in lower case, holds "id", "name", "code" or "serial"
HasKeyword(name) ==
    \E i \in 1..Len(name), j \in 1..Len(name) :
        [p \in 1..(j - i + 1) |-> lower_char(name[i + p - 1])]
            \in {<<"i", "d">>, <<"n", "a", "m", "e">>, <<"c", "o", "d", "e">>, <<"s", "e", "r", "i", "a", "l">>}

KeywordColumns(file) ==
    {c \in 1..Len(file.header) : ~ColumnMissing(file, c) /\ HasKeyword(file.header[c])}

ExpectedIdentifier(file) ==
    IF KeywordColumns(file) # {}
    THEN file.header[CHOOSE c \in KeywordColumns(file) : \A d \in KeywordColumns(file) : c <= d]
    ELSE file.header[1]

\* C12: the identifier chosen by detect is the first column, in table order, that is
\* not entirely missing and whose lower-cased name contains "id", "name", "code" or
\* "serial"; only when there is no such column is it the first column of the table.
C12_IdentifierChoice ==
    ret # Pending => ret.metadata.column_types.id_column = Str(ExpectedIdentifier(arg))

\* the keyword column Code holds no value, and Equipment Name has become the identifier
C12_Witness ==
    /\ ret # Pending
    /\ arg.header = <<CODE, EQUIPMENT_NAME, TEMPERATURE>>
    /\ ColumnMissing(arg, 1)
    /\ ret.metadata.column_types.id_column = Str(EQUIPMENT_NAME)

\* how many cells of column c of the file are not missing
PresentCount(file, c) ==
    Cardinality({r \in 1..Len(file.lines) : file.lines[r][c] \notin NaValues})

AtMostFivePresent(file) == \A c \in 1..Len(file.header) : PresentCount(file, c) <= 5

\* C13: classification is deterministic: the classification is a function of the
\* table and of the sample drawn, and for a table in which every column has at most
\* 5 non-missing values it is the same for every sample that can be drawn.
C13_SameForEverySample ==
    (ret # Pending /\ AtMostFivePresent(arg))
        => \A sample \in Samples(read_csv(arg)) :
               detect_column_types(read_csv(arg), sample) = ret.metadata.column_types

\* a column of two numbers and one word, three values in all, classified numeric
C13_Witness ==
    /\ ret # Pending
    /\ arg.header = <<TEMPERATURE>>
    /\ FileColumn(arg, TEMPERATURE) = <<<<"8", "0", "C">>, <<"9", "0">>, <<"a", "b", "c">>>>
    /\ AtMostFivePresent(arg)
    /\ ret.metadata.column_types.numeric_columns = <<TEMPERATURE>>

(***************************************************************************)
(* The cleaning of the numeric columns, read off the file.                 *)
(***************************************************************************)
DynCellTexts ==
    UNION {{file.lines[r][c] : r \in 1..Len(file.lines), c \in 1..Len(file.header)} :
              file \in DynFiles}

\* the number a cell of the file stands for, None when it stands for none
DynValue == [text \in DynCellTexts |->
                IF text \in NaValues THEN None ELSE NormalizeContract(Str(text))]

\* the readings of a column of the file, cell by cell
Readings(file, col) ==
    [r \in 1..Len(file.lines) |-> DynValue[FileColumn(file, col)[r]]]

FilledWithMeanOf(result, col) ==
    {w \in {result.metadata.validation_warnings[i] :
                i \in 1..Len(result.metadata.validation_warnings)} :
        w.fmt = "{col}: Missing values filled with mean ({mean_val:.2f})" /\ w.col = col}

\* C14: after clean, every cell of every numeric-classified column is a present
\* number: the number the cell of the file stands for, or, where it stands for none,
\* the mean of the numbers the column holds; a column that holds no number is left
\* entirely missing and has no imputation warning.
C14_NumericColumnsFilled ==
    ret # Pending
        => \A i \in 1..Len(ret.metadata.column_types.numeric_columns) :
               LET col == ret.metadata.column_types.numeric_columns[i]
               IN  IF MeanReading(Readings(arg, col)) = NaN
                   THEN /\ \A r \in 1..Len(ret.df.rows) : series(ret.df, col)[r] = NaN
                        /\ FilledWithMeanOf(ret, col) = {}
                   ELSE /\ Len(ret.df.rows) = Len(arg.lines)
                        /\ \A r \in 1..Len(ret.df.rows) : IsFloat(series(ret.df, col)[r])
                        /\ series(ret.df, col)
                               = Imputed(Readings(arg, col), MeanReading(Readings(arg, col)))

\* 80C, a missing cell and 90: the missing cell has become 85, the mean of 80 and 90
C14_Witness ==
    /\ ret # Pending
    /\ arg.header = <<TEMPERATURE>>
    /\ FileColumn(arg, TEMPERATURE) = <<<<"8", "0", "C">>, <<"N", "/", "A">>, <<"9", "0">>>>
    /\ ret.metadata.column_types.numeric_columns = <<TEMPERATURE>>
    /\ series(ret.df, TEMPERATURE) = <<Float(80, 1), Float(85, 1), Float(90, 1)>>

(***************************************************************************)
(* The order of the warnings of clean.                                     *)
(***************************************************************************)
PositionIn(cols, col) == CHOOSE i \in 1..Len(cols) : cols[i] = col

IsParseWarning(w) == w.fmt = "{col}: {failed_count} values could not be parsed"
IsFillWarning(w) == w.fmt = "{col}: Missing values filled with mean ({mean_val:.2f})"

\* C15: the warnings of clean follow the order of the numeric columns in the
\* classification; within one column the "values could not be parsed" warning comes
\* before the "Missing values filled with mean" warning, and a column has at most
\* one warning of each kind.
C15_WarningOrder ==
    ret # Pending
        => LET cols == ret.metadata.column_types.numeric_columns
               w == ret.metadata.validation_warnings
           IN  /\ \A i \in 1..Len(w) :
                      /\ \E c \in 1..Len(cols) : cols[c] = w[i].col
                      /\ IsParseWarning(w[i]) \/ IsFillWarning(w[i])
               /\ \A i \in 1..Len(w), j \in 1..Len(w) :
                      i < j => \/ PositionIn(cols, w[i].col) < PositionIn(cols, w[j].col)
                               \/ /\ w[i].col = w[j].col
                                  /\ IsParseWarning(w[i])
                                  /\ IsFillWarning(w[j])

\* two numeric columns, each with a word that could not be parsed: the two warnings
\* of Temperature, then the two warnings of Pressure
C15_Witness ==
    /\ ret # Pending
    /\ arg.header = <<SITE, TEMPERATURE, PRESSURE>>
    /\ ret.metadata.column_types.numeric_columns = <<TEMPERATURE, PRESSURE>>
    /\ Len(ret.metadata.validation_warnings) = 4
    /\ ret.metadata.validation_warnings[1] = CouldNotParse(TEMPERATURE, 1)
    /\ IsFillWarning(ret.metadata.validation_warnings[2])
    /\ ret.metadata.validation_warnings[2].col = TEMPERATURE
    /\ ret.metadata.validation_warnings[3] = CouldNotParse(PRESSURE, 1)
    /\ ret.metadata.validation_warnings[4] = FilledWithMean(PRESSURE, Float(95, 2))

(***************************************************************************)
(* clean applied to its own result.                                        *)
(***************************************************************************)
NoMissingLeft(df) ==
    \A r \in 1..Len(df.rows) : \A c \in 1..Len(df.columns) : ~pd_isna(df.rows[r][c])

(* C16 as stated: clean is idempotent on cleaned tables: applied to the output of  *)
(* a previous clean that has no missing value left, it returns an equal table,     *)
(* the same classification and an empty warning list.                              *)
C16_CleanIdempotent ==
    (again # Pending /\ NoMissingLeft(ret.df))
        => /\ again.df = ret.df
           /\ again.metadata.column_types = ret.metadata.column_types
           /\ again.metadata.validation_warnings = <<>>

\* the column of six values was categorical in the first clean and is numeric in
\* the second, which warns and replaces the three words by the mean
C16_ClassifiedAnew ==
    /\ again # Pending
    /\ arg.header = <<TEMPERATURE>>
    /\ NoMissingLeft(ret.df)
    /\ ret.metadata.column_types.category_columns = <<TEMPERATURE>>
    /\ again.metadata.column_types.numeric_columns = <<TEMPERATURE>>
    /\ again.metadata.validation_warnings
           = <<CouldNotParse(TEMPERATURE, 3), FilledWithMean(TEMPERATURE, Float(80, 1))>>
    /\ again.df # ret.df

(***************************************************************************)
(* The frame of the caller after clean.                                    *)
(***************************************************************************)
\* a cell as a value: the integer 90 and the float 90.0 are the same value
CellValue(cell) == IF cell.k = "int64" THEN Float(cell.i, 1) ELSE cell

SameCells(df1, df2) ==
    /\ df1.columns = df2.columns
    /\ Len(df1.rows) = Len(df2.rows)
    /\ \A r \in 1..Len(df1.rows) : \A c \in 1..Len(df1.columns) :
           CellValue(df1.rows[r][c]) = CellValue(df2.rows[r][c])

(* C18 as stated: the raw table passed to clean is immutable input: after clean    *)
(* returns, the table of the caller holds the same cells as before the call.       *)
C18_InputUnchanged ==
    ret # Pending => SameCells(ret.argument, read_csv(arg))

\* the caller's Temperature column read "80C" and a missing cell before the call and
\* holds 80.0 twice after it
C18_InputRewritten ==
    /\ ret # Pending
    /\ arg.header = <<TEMPERATURE>>
    /\ series(read_csv(arg), TEMPERATURE) = <<Str(<<"8", "0", "C">>), NaN>>
    /\ series(ret.argument, TEMPERATURE) = <<Float(80, 1), Float(80, 1)>>

(***************************************************************************)
(* The dynamic upload, read off the request.                               *)
(***************************************************************************)
\* the request carries a well-formed CSV whose table has a row and, in it, a cell
\* that is not missing, so that the table is not empty before or after cleaning
DynamicWellFormed(req) ==
    /\ IsCsvFile(req)
    /\ req.content.k = "csv"
    /\ Len(req.content.lines) > 0
    /\ \E r \in 1..Len(req.content.lines), c \in 1..Len(req.content.header) :
           req.content.lines[r][c] \notin NaValues

(* C17 as stated: a dynamic-schema upload of any well-formed CSV whose table is    *)
(* non-empty before and after cleaning is accepted: it returns 201 with the        *)
(* classification, statistics, visualizations and warnings, and persists exactly   *)
(* one dataset with one record per cleaned row.                                    *)
C17_DynamicAccepted ==
    DynamicWellFormed(last_request)
        => /\ last_response.status = 201
           /\ {"metadata", "statistics", "visualizations", "warnings"}
                  \subseteq DOMAIN last_response.data
           /\ Len(database.datasets) = 1
           /\ Len(database.dynamic_records) = last_response.data.total_records
           /\ last_response.data.total_records >= 1

\* the scenario file of the specification is answered 400 with the KeyError of
\* 'is_valid', and nothing is stored
C17_ScenarioRefused ==
    /\ last_request.has_file
    /\ last_request.content.k = "csv"
    /\ last_request.content.header = <<SENSOR_ID, ZONE, Reading(1), Reading(2)>>
    /\ DynamicWellFormed(last_request)
    /\ last_response = KeyErrorResponse("is_valid")
    /\ database = EmptyDb

(***************************************************************************)
(* The visualization plan, read off the classification.                    *)
(***************************************************************************)
ChartRank(type) == CASE type = "bar" -> 1 [] type = "pie" -> 2 [] type = "scatter" -> 3

ChartsOf(plan, type) == {i \in 1..Len(plan) : plan[i].type = type}

\* C19: the plan holds at most three descriptors in the order bar, pie, scatter: a
\* bar iff there is a numeric column, over the first min(6, k) numeric columns in
\* classification order; a pie iff there is a categorical column, over the first
\* one; a scatter iff there are two numeric columns, x the first and y the second.
\* For the columns SensorID, Zone, Reading1, Reading2 the identifier is SensorID
\* and the plan is bar(Reading1, Reading2), pie(Zone), scatter(Reading1, Reading2).
C19_PlanShape ==
    ret # Pending
        => LET plan == ret.visualizations
               numeric == ret.column_types.numeric_columns
               category == ret.column_types.category_columns
           IN  /\ Len(plan) <= 3
               /\ \A i \in 1..Len(plan) : plan[i].type \in {"bar", "pie", "scatter"}
               /\ \A i \in 1..Len(plan), j \in 1..Len(plan) :
                      i < j => ChartRank(plan[i].type) < ChartRank(plan[j].type)
               /\ (ChartsOf(plan, "bar") # {}) <=> (numeric # <<>>)
               /\ \A i \in ChartsOf(plan, "bar") :
                      /\ Len(plan[i].columns) = (IF Len(numeric) < 6 THEN Len(numeric) ELSE 6)
                      /\ \A k \in 1..Len(plan[i].columns) : plan[i].columns[k] = numeric[k]
               /\ (ChartsOf(plan, "pie") # {}) <=> (category # <<>>)
               /\ \A i \in ChartsOf(plan, "pie") : plan[i].column = category[1]
               /\ (ChartsOf(plan, "scatter") # {}) <=> (Len(numeric) >= 2)
               /\ \A i \in ChartsOf(plan, "scatter") :
                      plan[i].x_column = numeric[1] /\ plan[i].y_column = numeric[2]
               /\ arg.header = <<SENSOR_ID, ZONE, Reading(1), Reading(2)>>
                      => /\ ret.column_types.id_column = Str(SENSOR_ID)
                         /\ category = <<ZONE>>
                         /\ numeric = <<Reading(1), Reading(2)>>
                         /\ Len(plan) = 3
                         /\ plan[1].type = "bar"
                         /\ plan[1].columns = <<Reading(1), Reading(2)>>
                         /\ plan[2].type = "pie"
                         /\ plan[2].column = ZONE
                         /\ plan[3].type = "scatter"
                         /\ plan[3].x_column = Reading(1)
                         /\ plan[3].y_column = Reading(2)

\* the plan of SensorID, Zone, Reading1, Reading2 has been computed and holds the
\* three charts
C19_Witness ==
    /\ ret # Pending
    /\ arg.header = <<SENSOR_ID, ZONE, Reading(1), Reading(2)>>
    /\ Len(ret.visualizations) = 3
    /\ ret.visualizations[1] = bar_chart(<<Reading(1), Reading(2)>>)

\* seven numeric columns, of which the bar chart lists the first six
C19_SixOfSeven ==
    /\ ret # Pending
    /\ Len(ret.column_types.numeric_columns) = 7
    /\ Len(ret.visualizations[1].columns) = 6

(***************************************************************************)
(* The statistics of a column that holds one value in every row.           *)
(***************************************************************************)
\* the column holds the number v in each of its rows, of which there is one at least
HoldsOnly(column, v) ==
    /\ Len(column) >= 1
    /\ IsFloat(v)
    /\ \A i \in 1..Len(column) : column[i] = v

\* the statistics the 201 response gives for the column are those of the value v
StatsOfConstant(stats, v) ==
    /\ stats.average = round2(v)
    /\ stats.min = round2(v)
    /\ stats.max = round2(v)
    /\ stats.median = round2(v)
    /\ stats.std_dev = Float(0, 1)

(* C20 as stated, for the fixed-schema upload: a numeric column holding the same   *)
(* value v in all n >= 1 rows yields mean = v, min = max = median = v and standard *)
(* deviation 0; the standard deviation of a single-row column is 0, never NaN.     *)
C20_ConstantColumnStats ==
    last_response.status = 201
        => /\ HoldsOnly(Cleaned(last_request, FLOWRATE), Cleaned(last_request, FLOWRATE)[1])
                  => StatsOfConstant(last_response.data.statistics.flowrate,
                                     Cleaned(last_request, FLOWRATE)[1])
           /\ HoldsOnly(Cleaned(last_request, PRESSURE), Cleaned(last_request, PRESSURE)[1])
                  => StatsOfConstant(last_response.data.statistics.pressure,
                                     Cleaned(last_request, PRESSURE)[1])
           /\ HoldsOnly(Cleaned(last_request, TEMPERATURE), Cleaned(last_request, TEMPERATURE)[1])
                  => StatsOfConstant(last_response.data.statistics.temperature,
                                     Cleaned(last_request, TEMPERATURE)[1])

\* the one-row reference file is stored and its standard deviations are NaN
C20_SingleRowNaN ==
    /\ last_request = ReferenceRequest
    /\ last_response.status = 201
    /\ last_response.data.statistics.flowrate.average = Float(120, 1)
    /\ last_response.data.statistics.flowrate.std_dev = NaN
    /\ last_response.data.statistics.pressure.std_dev = NaN
    /\ last_response.data.statistics.temperature.std_dev = NaN

\* calculate_dynamic_statistics gives a one-row column the standard deviation 0
C20_DynamicSingleRowZero ==
    /\ ret # Pending
    /\ arg.header = <<SENSOR_ID, Reading(1)>>
    /\ Len(arg.lines) = 1
    /\ Len(ret.statistics) = 1
    /\ ret.statistics[1].col = Reading(1)
    /\ ret.statistics[1].mean = Float(10, 1)
    /\ ret.statistics[1].std_dev = Float(0, 1)
    /\ ret.statistics[1].count = 1

(***************************************************************************)
(* The rows that cleaning keeps, read off the file.                        *)
(***************************************************************************)
\* the cell of line r under column c holds something after the per-column
\* processing: a number in a numeric column, any value in another column
CellPresent(req, r, c) ==
    IF is_numeric_column(HeaderOf(req)[c])
    THEN TextValue[LinesOf(req)[r][c]] # None
    ELSE LinesOf(req)[r][c] \notin NaValues

\* the lines with a present cell
PresentRows(req) ==
    {r \in 1..Len(LinesOf(req)) : \E c \in 1..Len(HeaderOf(req)) : CellPresent(req, r, c)}

EmptyAfterParsing(response) ==
    /\ response.status = 400
    /\ response.data.error = Msg("CSV file contains no valid numeric data after parsing")

(* C21 as stated, for the fixed-schema upload: cleaning removes a row if and only  *)
(* if every column of that row is missing after per-column processing; a row with  *)
(* a name and a type but no reading is retained, and the reported row count is     *)
(* the number of retained rows.                                                    *)
C21_OnlyEmptyRowsDropped ==
    HasRequired(last_request)
        => /\ PresentRows(last_request) # {} => ~EmptyAfterParsing(last_response)
           /\ last_response.status = 201
                  => /\ last_response.data.statistics.total_records
                            = Cardinality(PresentRows(last_request))
                     /\ Len(last_response.data.dataset.equipments)
                            = Cardinality(PresentRows(last_request))

\* Pump-1 with readings and Pump-3 with a name and a type but no reading: the
\* upload is stored with one record, Pump-3 is gone
C21_NamedRowDropped ==
    /\ last_request = CsvRequest(required_columns, <<PUMP_1, PUMP_3>>)
    /\ PresentRows(last_request) = {1, 2}
    /\ last_response.status = 201
    /\ last_response.data.statistics.total_records = 1

(***************************************************************************)
(* Names and types that are empty.                                         *)
(***************************************************************************)
\* the text is missing in the CSV or nothing is left of it after trimming
EmptyText(text) == text \in NaValues \/ \A p \in 1..Len(text) : text[p] \in Whitespace

SomeEmpty(req, col) ==
    \E i \in 1..Len(Retained(req)) : EmptyText(TextAt(req, Retained(req)[i], col))

RejectedWith(response, text) ==
    /\ response.status = 400
    /\ "validation_errors" \in DOMAIN response.data
    /\ \E i \in 1..Len(response.data.validation_errors) :
           response.data.validation_errors[i] = text

Placeholders == {<<>>, <<"n", "a", "n">>, <<"N", "o", "n", "e">>, <<"N", "a", "N">>}

(* C22 as stated: a fixed-schema upload in which a retained row has an Equipment   *)
(* Name or Type that is empty after trimming, a cell missing in the CSV included,  *)
(* is rejected with "Equipment Name cannot be empty" / "Equipment Type cannot be   *)
(* empty", and no Equipment record with an empty or placeholder name or type is    *)
(* ever persisted.                                                                 *)
C22_EmptyNameRejected ==
    /\ ReachesValidation(last_request)
           => /\ SomeEmpty(last_request, EQUIPMENT_NAME)
                     => RejectedWith(last_response, "Equipment Name cannot be empty")
              /\ SomeEmpty(last_request, TYPE)
                     => RejectedWith(last_response, "Equipment Type cannot be empty")
    /\ \A i \in 1..Len(database.equipments) :
           /\ database.equipments[i].equipment_name \notin Placeholders
           /\ database.equipments[i].equipment_type \notin Placeholders

\* the name cell of the only row is missing: the upload is stored and the record
\* is named "nan"
C22_StoredAsNan ==
    /\ ReachesValidation(last_request)
    /\ TextAt(last_request, 1, EQUIPMENT_NAME) = <<>>
    /\ last_response.status = 201
    /\ \E i \in 1..Len(database.equipments) :
           database.equipments[i].equipment_name = <<"n", "a", "n">>

(***************************************************************************)
(* Numeric or categorical, read off the file.                              *)
(***************************************************************************)
PresentCells(file, c) == {r \in 1..Len(file.lines) : file.lines[r][c] \notin NaValues}

\* the samples of min(5, n) of the n non-missing cells of column c
SamplesOfColumn(file, c) ==
    {S \in SUBSET PresentCells(file, c) :
        Cardinality(S) = (IF Cardinality(PresentCells(file, c)) < 5
                          THEN Cardinality(PresentCells(file, c)) ELSE 5)}

\* strictly more than half of the sampled cells stand for a number
MajorityNumeric(file, c, S) ==
    2 * Cardinality({r \in S : DynValue[file.lines[r][c]] # None}) > Cardinality(S)

\* column c is the identifier that its keyword selected
KeywordIdentifier(file, c) ==
    KeywordColumns(file) # {} /\ file.header[c] = ExpectedIdentifier(file)

\* C23: a column that is not the keyword-selected identifier and has a non-missing
\* cell is classified from a sample of min(5, n) of its n non-missing cells: numeric
\* iff strictly more than half of the sampled cells normalize to a number, else
\* categorical (an exact half gives categorical); an entirely missing column is in
\* neither list.
C23_MajorityOfSample ==
    ret # Pending
        => \A c \in 1..Len(arg.header) :
               LET numeric == SeqCount(ret.metadata.column_types.numeric_columns, arg.header[c])
                   category == SeqCount(ret.metadata.column_types.category_columns, arg.header[c])
               IN  IF ColumnMissing(arg, c) \/ KeywordIdentifier(arg, c)
                   THEN numeric = 0 /\ category = 0
                   ELSE /\ numeric + category = 1
                        /\ \E S \in SamplesOfColumn(arg, c) :
                               (numeric = 1) <=> MajorityNumeric(arg, c, S)

\* one number and one word, an exact half: the column is categorical
C23_Witness ==
    /\ ret # Pending
    /\ arg.header = <<EQUIPMENT_NAME, TEMPERATURE>>
    /\ FileColumn(arg, TEMPERATURE) = <<<<"8", "0", "C">>, <<"a", "b", "c">>>>
    /\ ret.metadata.column_types.category_columns = <<TEMPERATURE>>
    /\ ret.metadata.column_types.numeric_columns = <<>>

(***************************************************************************)
(* What a request that is answered with an error leaves behind.            *)
(***************************************************************************)
SameRows(db1, db2) ==
    /\ db1.datasets = db2.datasets
    /\ db1.equipments = db2.equipments
    /\ db1.dynamic_records = db2.dynamic_records

(* C24 as stated: upload is all-or-nothing: a request that is answered with an     *)
(* error, an internal error raised after the Dataset row was created included,     *)
(* leaves the datasets and the records as they were before the request, and the    *)
(* number of live datasets never exceeds 5 after a completed request.              *)
C24_AllOrNothing ==
    [][ /\ last_response'.status # 201 => SameRows(database', database)
        /\ Len(database'.datasets) <= KEEP ]_vars

\* six datasets are stored, the newest without any record: its upload was answered
\* 400 after the Dataset row was created
C24_OrphanKept ==
    /\ last_response.status = 400
    /\ last_response.data.error = Msg("Failed to process CSV file")
    /\ Len(database.datasets) = KEEP + 1
    /\ \A i \in 1..Len(database.equipments) :
           database.equipments[i].dataset # database.datasets[Len(database.datasets)].id

(***************************************************************************)
(* The records and the datasets they belong to.                            *)
(***************************************************************************)
DatasetIds(db) == {db.datasets[i].id : i \in 1..Len(db.datasets)}

EquipmentsOf(db, id) == {i \in 1..Len(db.equipments) : db.equipments[i].dataset = id}

\* C25: after any sequence of uploads and evictions every Equipment and DynamicData
\* record references a dataset that still exists, and the total_count of every
\* dataset that a successful fixed-schema upload created is the number of its
\* Equipment records.
C25_RecordsHaveDataset ==
    /\ \A i \in 1..Len(database.equipments) :
           database.equipments[i].dataset \in DatasetIds(database)
    /\ \A i \in 1..Len(database.dynamic_records) :
           database.dynamic_records[i].dataset \in DatasetIds(database)
    /\ \A i \in 1..Len(database.datasets) :
           (\E u \in 1..Len(uploaded) : uploaded[u] = database.datasets[i].id)
               => database.datasets[i].total_count
                      = Cardinality(EquipmentsOf(database, database.datasets[i].id))

\* a dataset has been evicted, and a stored dataset of two rows has its two records
C25_Witness ==
    /\ Len(uploaded) > KEEP
    /\ \E u \in 1..Len(uploaded) : uploaded[u] \notin DatasetIds(database)
    /\ \E i \in 1..Len(database.datasets) :
           /\ database.datasets[i].total_count = 2
           /\ Cardinality(EquipmentsOf(database, database.datasets[i].id)) = 2

(***************************************************************************)
(* The one-time passwords that authorize a request, read off the tables.   *)
(***************************************************************************)
UserIdsOf(acc, email) ==
    {acc.users[i].id : i \in {j \in 1..Len(acc.users) : acc.users[j].email = email}}

\* the rows of the user of that email that carry the code and are not used
UnusedRows(acc, email, code) ==
    {i \in 1..Len(acc.otps) : /\ acc.otps[i].user_id \in UserIdsOf(acc, email)
                              /\ acc.otps[i].otp = code
                              /\ ~acc.otps[i].is_used}

\* and of them those within five minutes of their creation
ValidRows(acc, email, code) ==
    {i \in UnusedRows(acc, email, code) : acc.now < acc.otps[i].created_at + 5}

InvalidOtp == Response(400, [error |-> Msg("Invalid OTP")], 0)

\* the request names a registered user, a code and an acceptable new password
WellFormedReset(acc, request) ==
    /\ ~falsy(request.email) /\ ~falsy(request.otp) /\ ~falsy(request.new_password)
    /\ Len(request.new_password.s) >= 8
    /\ UserIdsOf(acc, request.email.s) # {}

WellFormedVerify(acc, request) ==
    /\ ~falsy(request.email) /\ ~falsy(request.otp)
    /\ UserIdsOf(acc, request.email.s) # {}

\* row i alone changes, to used, and the user of the email alone changes, to the new password
ResetBy(pre, post, i, request) ==
    /\ Len(post.otps) = Len(pre.otps)
    /\ \A j \in 1..Len(pre.otps) :
           post.otps[j] = IF j = i THEN [pre.otps[j] EXCEPT !.is_used = TRUE] ELSE pre.otps[j]
    /\ Len(post.users) = Len(pre.users)
    /\ \A j \in 1..Len(pre.users) :
           post.users[j] = IF pre.users[j].id = pre.otps[i].user_id
                           THEN [pre.users[j] EXCEPT !.password = make_password(request.new_password.s)]
                           ELSE pre.users[j]

ResetStep(pre, post, request, response) ==
    /\ response.status = 200 =>
           \E i \in ValidRows(pre, request.email.s, request.otp.s) : ResetBy(pre, post, i, request)
    /\ response.status # 200 => post.users = pre.users /\ post.otps = pre.otps
    /\ WellFormedReset(pre, request) /\ UnusedRows(pre, request.email.s, request.otp.s) = {} =>
           response = InvalidOtp

VerifyStep(pre, post, request, response) ==
    /\ post.users = pre.users /\ post.otps = pre.otps
    /\ response.status = 200 => ValidRows(pre, request.email.s, request.otp.s) # {}
    /\ WellFormedVerify(pre, request) /\ UnusedRows(pre, request.email.s, request.otp.s) = {} =>
           response = InvalidOtp

\* a row that is used stays used, and no password changes but by a reset
OtpFrame(pre, post, request) ==
    /\ \A i \in 1..Len(pre.otps) : pre.otps[i].is_used => post.otps[i].is_used
    /\ request.op # "reset_password" => post.users = pre.users

(* C26: a one-time password authorizes at most one reset and only while valid:    *)
(* reset_password answers 200 only when a row of the user of the email carries    *)
(* the submitted code, is not used and is less than five minutes old, and then    *)
(* that row alone becomes used and that user alone gets the new password; a row   *)
(* that is used stays used, and a well-formed reset or verify that finds no       *)
(* unused row of the code is answered 400 "Invalid OTP"; a reset that is not      *)
(* answered 200 changes no user and no row, and verify_otp never changes any.     *)
C26_OtpSingleUse ==
    [][ /\ OtpFrame(accounts, accounts', last_request')
        /\ last_request'.op = "reset_password" =>
               ResetStep(accounts, accounts', last_request', last_response')
        /\ last_request'.op = "verify_otp" =>
               VerifyStep(accounts, accounts', last_request', last_response') ]_vars

\* Ann's code has reset her password and is now refused
C26_Witness ==
    /\ "op" \in DOMAIN last_request
    /\ last_request.op = "reset_password"
    /\ last_request.email = Str(EMAIL_A)
    /\ WellFormedReset(accounts, last_request)
    /\ last_response = InvalidOtp
    /\ accounts.users[1].password = make_password(PASSWORD_2)
    /\ \E i \in 1..Len(accounts.otps) : /\ accounts.otps[i].user_id = accounts.users[1].id
                                        /\ accounts.otps[i].otp = last_request.otp.s
                                        /\ accounts.otps[i].is_used

(***************************************************************************)
(* The unused one-time passwords of a user.                                *)
(***************************************************************************)
RowsOf(acc, user_id) == {i \in 1..Len(acc.otps) : acc.otps[i].user_id = user_id}
UnusedOf(acc, user_id) == {i \in RowsOf(acc, user_id) : ~acc.otps[i].is_used}

OneUnusedTheLatest(acc) ==
    \A k \in 1..Len(acc.users) :
        /\ Cardinality(UnusedOf(acc, acc.users[k].id)) <= 1
        /\ \A i \in UnusedOf(acc, acc.users[k].id) :
               \A j \in RowsOf(acc, acc.users[k].id) : j <= i

(* C27 as stated: after any sequence, and any interleaving, of                    *)
(* request_password_reset calls a user has at most one unused one-time password,  *)
(* and it is the one created last, so a code issued by an earlier request no      *)
(* longer resets the password.                                                    *)
C27_OneUnusedOtp == OneUnusedTheLatest(accounts)

\* two requests for Ann have been answered and the code of the earlier one resets her password
C27_EarlierCodeResets ==
    /\ "op" \in DOMAIN last_request
    /\ last_request.op = "reset_password"
    /\ last_response.status = 200
    /\ \A p \in Procs : threads[p].pc = "idle"
    /\ \E i, j \in RowsOf(accounts, 1) :
           /\ i < j
           /\ accounts.otps[i].otp = last_request.otp.s
           /\ accounts.otps[j].otp # last_request.otp.s
           /\ ~accounts.otps[j].is_used

(***************************************************************************)
(* The run that differs only in whether the email is registered.           *)
(***************************************************************************)
CAROL == <<"c", "a", "r", "o", "l">>

RECURSIVE delete_users(_, _)
delete_users(acc, ids) ==
    IF ids = {} THEN acc
    ELSE LET id == CHOOSE x \in ids : TRUE
         IN  delete_users(User_delete(acc, id), ids \ {id})

\* the accounts without the users of the email when it is registered, and with
\* one more user, of that email, when it is not
OtherRun(acc, email) ==
    IF UserIdsOf(acc, email) # {}
    THEN delete_users(acc, UserIdsOf(acc, email))
    ELSE create_user(acc, CAROL, email, PASSWORD_1).accounts

(* C28 as stated: request_password_reset does not reveal whether an account       *)
(* exists: the response to a request that names an email, status and body, is     *)
(* the response the same request gets in the run that differs only in whether     *)
(* the email belongs to a registered user.                                        *)
C28_SameResponse ==
    [][ (last_request'.op = "request_password_reset" /\ ~falsy(last_request'.email)) =>
            \E otp_code \in OtpCodes, mail_sent \in BOOLEAN :
                last_response' = request_password_reset(
                                     [email |-> last_request'.email],
                                     OtherRun(accounts, last_request'.email.s),
                                     otp_code, mail_sent).response ]_vars

\* the answer to a registered email says that the code has been sent, and to whom
C28_Revealed ==
    /\ "op" \in DOMAIN last_request
    /\ last_request.op = "request_password_reset"
    /\ last_request.email = Str(EMAIL_A)
    /\ last_response = Response(200, [message |-> Msg("OTP has been sent to your email address"),
                                      email |-> EMAIL_A], 0)

(***************************************************************************)
(* The tokens of a user, and the keys issued so far: the keys are numbered *)
(* as issued, so those issued before a call are the ones below next_key.   *)
(***************************************************************************)
TokenKeysOf(acc, user_id) ==
    {acc.tokens[i].key : i \in {j \in 1..Len(acc.tokens) : acc.tokens[j].user_id = user_id}}

IssuedKeys(acc) == 1..(acc.next_key - 1)

\* the user of the key alone changes, to the new password
PasswordSetBy(pre, post, user, new_password) ==
    /\ Len(post.users) = Len(pre.users)
    /\ \A j \in 1..Len(pre.users) :
           post.users[j] = IF pre.users[j].id = user.id
                           THEN [pre.users[j] EXCEPT !.password = make_password(new_password)]
                           ELSE pre.users[j]

ChangeStep(pre, post, request, response) ==
    /\ response.status = 200 =>
           /\ Len(request_user(pre, request.token)) = 1
           /\ LET user == request_user(pre, request.token)[1]
              IN  /\ Cardinality(TokenKeysOf(post, user.id)) = 1
                  /\ Len(Token_filter(post, user.id)) = 1
                  /\ TokenKeysOf(post, user.id) \cap IssuedKeys(pre) = {}
                  /\ Len(request_user(post, request.token)) = 0
                  /\ check_password(request.current_password.s, user.password)
                  /\ Len(request.new_password.s) >= 8
                  /\ PasswordSetBy(pre, post, user, request.new_password.s)
    /\ response.status # 200 => post.users = pre.users /\ post.tokens = pre.tokens
    /\ ( \/ falsy(request.current_password)
         \/ falsy(request.new_password)
         \/ Len(request.new_password.s) < 8
         \/ Len(request_user(pre, request.token)) = 0
         \/ ~check_password(request.current_password.s, request_user(pre, request.token)[1].password) )
           => response.status # 200

(* C29: change_password forces re-login: after a call answered 200 the user has   *)
(* exactly one token, its key is none of the keys issued before the call, and the *)
(* key of the request no longer authenticates; a call that lacks a field, gives   *)
(* a wrong current password or a new password shorter than 8 characters is not    *)
(* answered 200, and a call that is not answered 200 leaves every password and    *)
(* every token as it was.                                                         *)
C29_ChangeForcesLogin ==
    [][ last_request'.op = "change_password" =>
            ChangeStep(accounts, accounts', last_request', last_response') ]_vars

\* a user who logged in has changed the password and holds a new token
C29_Witness ==
    /\ "op" \in DOMAIN last_request
    /\ last_request.op = "change_password"
    /\ last_response.status = 200
    /\ last_request.token \in IssuedKeys(accounts)
    /\ \E i \in 1..Len(accounts.tokens) : accounts.tokens[i].key > last_request.token
    /\ \A i \in 1..Len(accounts.tokens) : accounts.tokens[i].key # last_request.token

\* a call with a wrong current password has been refused
C29_Refused ==
    /\ "op" \in DOMAIN last_request
    /\ last_request.op = "change_password"
    /\ last_response = Response(400, [error |-> Msg("Current password is incorrect")], 0)

(***************************************************************************)
(* The usernames and the emails of the users.                              *)
(***************************************************************************)
Distinct(acc, field) ==
    \A i, j \in 1..Len(acc.users) : i # j => acc.users[i][field] # acc.users[j][field]

(* C30 as stated: after any sequence, and any interleaving, of register_user,     *)
(* register, update_profile and delete_account requests no two users share a      *)
(* username and no two users share an email address.                              *)
C30_UniqueUsers == Distinct(accounts, "username") /\ Distinct(accounts, "email")

\* the usernames alone are distinct in every state
C30_UniqueUsernames == Distinct(accounts, "username")

\* two users share an email while no call is in flight
C30_SharedEmail ==
    /\ \A p \in DOMAIN threads : threads[p].pc = "idle"
    /\ ~Distinct(accounts, "email")

====
